---- MODULE Spec2Model ----
(***************************************************************************)
(* scroll4me: the scroll-collect loop of the scraper, the concurrent       *)
(* batched analyzer, the cookie store, the login attempt of the auth       *)
(* manager, the callers of logout (tray and command line), the digest      *)
(* pipeline of the app, its relevance filter, the metric parser of the     *)
(* scraper, the config snapshots of the app, the cookie file during a      *)
(* Save, the Anthropic provider, the browser session of a scrape, the      *)
(* batch size of AnalyzePosts, a GenerateDigest run beside reloads, and    *)
(* the dispatch loop of the tray, as state machines.                       *)
(*                                                                         *)
(* A post is modelled by its ID (the only field the scroll-collect loop    *)
(* and the analyzer's batching read); the empty ID "" is EmptyID.          *)
(* Each component has its own specification (SpecScroll, SpecScrollLive,   *)
(* SpecAnalyzer, SpecCookies, SpecLogin, SpecLogout, SpecDigest,           *)
(* SpecFilter, SpecMetric, SpecSnapshot, SpecSaveRace, SpecProvider,       *)
(* SpecScrape, SpecSize, SpecRun, SpecTray), in which the other            *)
(* components stay at rest.                                                *)
(***************************************************************************)
EXTENDS Integers, Sequences, FiniteSets, TLC

\* ------------------------------------------------------------------ bounds

\* Largest target count handed to extractPosts / extractReplies.
MaxCount == 10
\* Post IDs are 1..MaxID.
MaxID == 3
\* Most articles one evaluation of the content script returns.
MaxVisible == 2

\* ------------------------------------------------------------------- state

\* The scroll-collect run (scraper.scrollAndCollect).
VARIABLES
    scPc,               \* position of the scroll-collect run
    scKind,             \* "feed" | "thread" | "legacyFeed"
    maxCount,           \* scrollAndCollectParams.maxCount
    maxScrollAttempts,  \* scrollAndCollectParams.maxScrollAttempts
    scrollAttempts,     \* loop counter
    posts,              \* accumulator
    seenIDs,            \* set of IDs already appended
    passes,             \* history: number of extractor calls made
    scrolls,            \* history: number of scroll calls made
    reappeared,         \* history: some pass rendered an ID already rendered
    barrenPass,         \* history: some pass appended nothing
    retPosts,           \* returned slice (<<>> models nil)
    retErr,             \* returned error is non-nil
    lastExpand,         \* history: the "Show more" step of the last pass
    browserFailed,      \* history: the extractor or the scroll step failed
    rawEmpty,           \* history: some pass rendered an article without ID
    encountered,        \* history: the IDs read, in order of first encounter
    scrapePosts,        \* posts returned by ScrapeForYou / ScrapeThread
    scrapeErr           \* error returned by ScrapeForYou / ScrapeThread

scrollVars == <<scPc, scKind, maxCount, maxScrollAttempts, scrollAttempts,
                posts, seenIDs, passes, scrolls, reappeared, barrenPass,
                retPosts, retErr, lastExpand, browserFailed, rawEmpty,
                encountered, scrapePosts, scrapeErr>>

\* One AnalyzePosts call (analyzer.Analyzer).
VARIABLES
    anPc,          \* "idle" | "dispatch" | "wait" | "done"
    anPosts,       \* the posts argument
    batchSize,     \* Analyzer.batchSize
    interests,     \* Analyzer.interests
    numBatches,    \* numBatches
    loopI,         \* i of the dispatch loop
    task,          \* per spawned closure: "ready" | "calling" | "finished"
    captured,      \* per spawned closure: the batchIdx and batch it captured
    results,       \* results, one slot per batch
    gErr,          \* the errgroup's error: the batch index it names, or NoErr
    ctxCancelled,  \* the errgroup's context is cancelled
    calls,         \* history: the Provider calls made, by closure
    numCalls,      \* history: number of Provider calls made
    provided,      \* history: what the Provider returned to each closure
    failed,        \* history: closures whose Provider call returned an error
    firstFailed,   \* history: the closure whose Provider call failed first
    outOfOrder,    \* history: a call returned before one of a lower batch
    anRetResults,  \* returned slice (<<>> models nil)
    anRetErr       \* returned error: the batch index it names, or NoErr

analyzerVars == <<anPc, anPosts, batchSize, interests, numBatches, loopI, task,
                  captured, results, gErr, ctxCancelled, calls, numCalls,
                  provided, failed, firstFailed, outOfOrder, anRetResults,
                  anRetErr>>

\* The cookie store (auth.CookieStore).
VARIABLES
    file,          \* the cookie file: NoFile, CorruptFile, or a StoredCookies
    now,           \* time.Now(), in whole seconds since the epoch
    lastOp,        \* the CookieStore call that has just returned, and its result
    lastSaved,     \* history: the cookies Save wrote the file from, if Save wrote it
    loggedOut      \* history: a Logout succeeded and no Save has followed it

cookieVars == <<file, now, lastOp, lastSaved, loggedOut>>

\* One Login attempt (auth.Manager.Login and waitForLogin).
VARIABLES
    lgPc,          \* "idle" | "navigate" | "wait" | "extract" | "save" | "done"
    lgCtxDone,     \* the browser context is cancelled
    lgPolls,       \* history: ticks of the ticker handled so far
    lgLastPoll,    \* history: what the browser held at the last tick handled
    lgPollErrs,    \* history: the browser calls that failed at some tick
    lgUrlAlone,    \* history: a tick saw a post-login URL without the cookie
    lgCookieAlone, \* history: a tick saw the cookie without a post-login URL
    lgDetected,    \* history: the tick at which waitForLogin returned nil
    lgExtracted,   \* cookies, as extracted after waitForLogin
    lgSaves,       \* history: calls of cookieStore.Save in this attempt
    lgResult,      \* what Login returned: "none" while it runs, "ok", or the
                   \* step that failed
    lgFileAtStart  \* history: the cookie file when Login was called

loginVars == <<lgPc, lgCtxDone, lgPolls, lgLastPoll, lgPollErrs, lgUrlAlone,
               lgCookieAlone, lgDetected, lgExtracted, lgSaves, lgResult,
               lgFileAtStart>>

\* The callers of Logout: the tray's auth menu item and the logout command.
VARIABLES
    trayPc,        \* the click handler: "idle" | "logout" | "login"
    trayResult,    \* what TriggerLogout or TriggerLogin returned last
    cliPc,         \* runClearCookies: "idle" | "remove"
    cliResult      \* how the logout command ended last

logoutVars == <<trayPc, trayResult, cliPc, cliResult>>

\* One run of the pipeline (app.App.GenerateDigest, or the scrape step).
VARIABLES
    gdPc,            \* "idle" | "cookies" | "scrape" | "analyze" | "filter" |
                     \* "context" | "build" | "done"
    gdKind,          \* "generate" | "stepScrape"
    gdThreshold,     \* config.Analysis.RelevanceThreshold
    gdAuth,          \* history: what IsAuthenticated returned at the start
    gdPosts,         \* posts
    gdAnalyses,      \* analyses
    gdRelevant,      \* relevantPosts
    gdScrapes,       \* history: calls of scraper.ScrapeForYou
    gdProviderCalls, \* history: Provider calls made by AnalyzePosts
    gdFilters,       \* history: runs of the relevance filter
    gdBuilds,        \* history: digest builds
    gdResult,        \* what the run returned: "none" while it runs, "nil", or
                     \* the step that failed
    gdAnalyzes,      \* history: calls of AnalyzePosts
    gdCacheFailed,   \* history: the steps whose cache write failed
    gdDigestSaved,   \* history: builder.Save wrote the digest
    gdFailed         \* history: the steps that returned an error

digestVars == <<gdPc, gdKind, gdThreshold, gdAuth, gdPosts, gdAnalyses,
                gdRelevant, gdScrapes, gdProviderCalls, gdFilters, gdBuilds,
                gdResult, gdAnalyzes, gdCacheFailed, gdDigestSaved, gdFailed>>

\* One call of the relevance filter (App.FilterByRelevance).
VARIABLES
    flPc,         \* "ready" | "done"
    flPosts,      \* posts
    flAnalyses,   \* analyses
    flThreshold,  \* config.Analysis.RelevanceThreshold
    flRelevant,   \* the returned relevantPosts
    flCached      \* store.SaveStepOutput: "none" | "saved" | "failed"

filterVars == <<flPc, flPosts, flAnalyses, flThreshold, flRelevant, flCached>>

\* One call of parseMetric (scraper.parseMetric).
VARIABLES
    pmPc,      \* "ready" | "done"
    pmText,    \* the argument s, a sequence of characters
    pmResult   \* the returned int

metricVars == <<pmPc, pmText, pmResult>>

\* The replaceable fields of app.App, its RWMutex, the callers of
\* ReloadConfig and the callers of getSnapshot. A config, a scraper or an
\* analyzer is named by the installation that made it: 0 for New, n for the
\* n-th config.Load of a ReloadConfig.
VARIABLES
    appConfig,     \* App.config
    appScraper,    \* App.scraper
    appAnalyzer,   \* App.analyzer
    muWriter,      \* App.mu: the reloader that holds the exclusive lock, or 0
    muReaders,     \* App.mu: the readers that hold the read lock
    loads,         \* calls of config.Load that returned a config
    cfgContent,    \* what each loaded config holds, as decoded from the file
    rcPc,          \* of each reloader: "idle" | "loaded" | "built" |
                   \* "setConfig" | "setAnalyzer" | "setScraper" | "unlock"
    rcCfg,         \* of each reloader: its cfg
    rcNewAnalyzer, \* of each reloader: its newAnalyzer
    rcResult,      \* of each reloader: what ReloadConfig returned last
    gsPc,          \* of each reader: "idle" | "config" | "scraper" |
                   \* "analyzer" | "unlock"
    gsLiteral,     \* of each reader: the snapshot literal as evaluated so far
    gsSnapshot     \* of each reader: the snapshot getSnapshot returned last

snapshotVars == <<appConfig, appScraper, appAnalyzer, muWriter, muReaders, loads,
                  cfgContent, rcPc, rcCfg, rcNewAnalyzer, rcResult, gsPc,
                  gsLiteral, gsSnapshot>>

\* One CookieStore.Save as the file system sees it (os.WriteFile), beside
\* the readers of the file.
VARIABLES
    swPc,       \* "idle" | "opened" | "partial"
    swCookies   \* the cookies being saved

saveVars == <<swPc, swCookies>>

\* One call of AnthropicProvider.Analyze.
VARIABLES
    pvPc,        \* "ready" | "called" | "done"
    pvBatch,     \* posts, by their IDs
    pvResponse,  \* what Messages.New returned
    pvAnalyses,  \* the returned analyses (<<>> models nil)
    pvErr        \* the returned error: "none" or the step that failed

providerVars == <<pvPc, pvBatch, pvResponse, pvAnalyses, pvErr>>

\* One call of Scraper.ScrapeForYou or Scraper.ScrapeThread, with the
\* context of its caller.
VARIABLES
    cxPc,           \* "idle" | "inject" | "navigate" | "settle" | "loop" |
                    \* "extract" | "scroll" | "sleep" | "after" | "pause" | "done"
    cxKind,         \* "feed" (ScrapeForYou) | "thread" (ScrapeThread)
    cxDebugPause,   \* s.debugPauseAfterScrape && !s.headless
    cxMax,          \* p.maxScrollAttempts
    cxAttempts,     \* scrollAttempts
    cxErr,          \* err of the step that failed
    cxCtxDone,      \* the context is cancelled, or its deadline has passed
    cxDoneAt,       \* history: where the call was when that happened
    cxOpAfterDone,  \* history: a browser operation began after that
    cxAllocLive,    \* the exec allocator is running
    cxBrowserLive,  \* the browser context is open
    cxResult        \* "none" | "posts" | "error"

scrapeVars == <<cxPc, cxKind, cxDebugPause, cxMax, cxAttempts, cxErr, cxCtxDone,
                cxDoneAt, cxOpAfterDone, cxAllocLive, cxBrowserLive, cxResult>>

\* One call of Analyzer.AnalyzePosts on a non-empty list, with whatever
\* batch size the configuration holds.
VARIABLES
    bsPc,          \* "idle" | "alloc" | "loop" | "call" | "wait" | "done"
    bsKind,        \* "concurrent" (analyzer.go) | "sequential" (the earlier one)
    bsSize,        \* a.batchSize
    bsLen,         \* len(posts)
    bsI,           \* i of the loop
    bsNumBatches,  \* numBatches
    bsRunning,     \* closures that have not returned
    bsErr,         \* a Provider call returned an error
    bsCalls,       \* history: Provider calls made
    bsOutcome      \* "none" | "results" | "error" | "panic"

sizeVars == <<bsPc, bsKind, bsSize, bsLen, bsI, bsNumBatches, bsRunning, bsErr,
              bsCalls, bsOutcome>>

\* One run of App.GenerateDigest beside ReloadConfig calls.
VARIABLES
    grPc,      \* "idle" | "scrape" | "analyze" | "filter" | "build" | "done"
    grKind,    \* "single" (app.go) | "staged" (the GenerateDigest of the step methods)
    grSnap,    \* s of GenerateDigest (app.go)
    grUsed     \* history: <<what, installation>> for every setting a stage used

runVars == <<grPc, grKind, grSnap, grUsed>>

\* The goroutine of OnReady that handles the menu clicks.
VARIABLES
    trPc,             \* "select" | "login" | "quit": where the loop is
    trAuthenticated,  \* a.IsAuthenticated()
    trLoginActive,    \* a TriggerLogin call is in progress
    trLoginPolls,     \* polls that call has made
    trDigests,        \* GenerateDigest goroutines in progress
    trHandled         \* the click the loop handled last

trayVars == <<trPc, trAuthenticated, trLoginActive, trLoginPolls, trDigests, trHandled>>

vars == <<scrollVars, analyzerVars, cookieVars, loginVars, logoutVars, digestVars,
          filterVars, metricVars, snapshotVars, saveVars, providerVars, scrapeVars,
          sizeVars, runVars, trayVars>>

\* What the actions of one component leave alone.
exceptScroll ==
    <<analyzerVars, cookieVars, loginVars, logoutVars, digestVars, filterVars,
      metricVars, snapshotVars, saveVars, providerVars, scrapeVars, sizeVars, runVars,
      trayVars>>
exceptAnalyzer ==
    <<scrollVars, cookieVars, loginVars, logoutVars, digestVars, filterVars,
      metricVars, snapshotVars, saveVars, providerVars, scrapeVars, sizeVars, runVars,
      trayVars>>
exceptCookies ==
    <<scrollVars, analyzerVars, loginVars, logoutVars, digestVars, filterVars,
      metricVars, snapshotVars, saveVars, providerVars, scrapeVars, sizeVars, runVars,
      trayVars>>
exceptSession ==
    <<scrollVars, analyzerVars, logoutVars, digestVars, filterVars, metricVars,
      snapshotVars, saveVars, providerVars, scrapeVars, sizeVars, runVars, trayVars>>
exceptLogout ==
    <<scrollVars, analyzerVars, loginVars, digestVars, filterVars, metricVars,
      snapshotVars, saveVars, providerVars, scrapeVars, sizeVars, runVars, trayVars>>
exceptDigest ==
    <<scrollVars, analyzerVars, loginVars, logoutVars, filterVars, metricVars,
      snapshotVars, saveVars, providerVars, scrapeVars, sizeVars, runVars, trayVars>>
exceptFilter ==
    <<scrollVars, analyzerVars, cookieVars, loginVars, logoutVars, digestVars,
      metricVars, snapshotVars, saveVars, providerVars, scrapeVars, sizeVars, runVars,
      trayVars>>
exceptMetric ==
    <<scrollVars, analyzerVars, cookieVars, loginVars, logoutVars, digestVars,
      filterVars, snapshotVars, saveVars, providerVars, scrapeVars, sizeVars, runVars,
      trayVars>>
exceptSnapshot ==
    <<scrollVars, analyzerVars, cookieVars, loginVars, logoutVars, digestVars,
      filterVars, metricVars, saveVars, providerVars, scrapeVars, sizeVars, runVars,
      trayVars>>
exceptSave ==
    <<scrollVars, analyzerVars, loginVars, logoutVars, digestVars, filterVars,
      metricVars, snapshotVars, providerVars, scrapeVars, sizeVars, runVars, trayVars>>
exceptProvider ==
    <<scrollVars, analyzerVars, cookieVars, loginVars, logoutVars, digestVars,
      filterVars, metricVars, snapshotVars, saveVars, scrapeVars, sizeVars, runVars,
      trayVars>>
exceptScrape ==
    <<scrollVars, analyzerVars, cookieVars, loginVars, logoutVars, digestVars,
      filterVars, metricVars, snapshotVars, saveVars, providerVars, sizeVars, runVars,
      trayVars>>
exceptSize ==
    <<scrollVars, analyzerVars, cookieVars, loginVars, logoutVars, digestVars,
      filterVars, metricVars, snapshotVars, saveVars, providerVars, scrapeVars,
      runVars, trayVars>>
exceptRun ==
    <<scrollVars, analyzerVars, cookieVars, loginVars, logoutVars, digestVars,
      filterVars, metricVars, snapshotVars, saveVars, providerVars, scrapeVars,
      sizeVars, trayVars>>
exceptTray ==
    <<scrollVars, analyzerVars, cookieVars, loginVars, logoutVars, digestVars,
      filterVars, metricVars, snapshotVars, saveVars, providerVars, scrapeVars,
      sizeVars, runVars>>

\* ------------------------------------------------------------- scroll-collect

\* The empty rawPost.ID.
EmptyID == 0

IDs == 1..MaxID
RawIDs == IDs \cup {EmptyID}

Min(a, b) == IF a < b THEN a ELSE b

SeqsUpTo(S, n) == UNION {[1..k -> S] : k \in 0..n}

\* maxScrollAttempts is count / 5 for the feed and count/3 + 5 for a thread
\* (Go's integer division; counts here are >= 0).
FeedItemsPerScroll == 5
ReplyItemsPerScroll == 3
ReplyExtraScrolls == 5

\* Faulty variant of ConvertRaw: every raw article becomes a post.
ConvertRaw_KeepAll(raw) == raw

\* The conversion loop of extractVisiblePosts / extractVisibleReplies: raw
\* articles without an ID are skipped.
ConvertRaw(raw) == SelectSeq(raw, LAMBDA id : id # EmptyID)

\* Faulty variant of Collect: an unseen post is put in front of the
\* accumulator.
RECURSIVE Collect_NewestFirst(_, _, _, _)
Collect_NewestFirst(acc, seen, newPosts, limit) ==
    IF newPosts = <<>> THEN <<acc, seen>>
    ELSE LET p == Head(newPosts) IN
         IF p \notin seen
         THEN IF Len(acc) + 1 >= limit
              THEN <<<<p>> \o acc, seen \cup {p}>>
              ELSE Collect_NewestFirst(<<p>> \o acc, seen \cup {p}, Tail(newPosts), limit)
         ELSE Collect_NewestFirst(acc, seen, Tail(newPosts), limit)

\* Faulty variant of Collect: the ID is appended but never marked as seen.
RECURSIVE Collect_NoMark(_, _, _, _)
Collect_NoMark(acc, seen, newPosts, limit) ==
    IF newPosts = <<>> THEN <<acc, seen>>
    ELSE LET p == Head(newPosts) IN
         IF p \notin seen
         THEN IF Len(acc) + 1 >= limit
              THEN <<Append(acc, p), seen>>
              ELSE Collect_NoMark(Append(acc, p), seen, Tail(newPosts), limit)
         ELSE Collect_NoMark(acc, seen, Tail(newPosts), limit)

\* The dedup loop of scrollAndCollect: append unseen posts, break as soon
\* as the accumulator holds maxCount posts. Returns <<posts, seenIDs>>.
RECURSIVE Collect(_, _, _, _)
Collect(acc, seen, newPosts, limit) ==
    IF newPosts = <<>> THEN <<acc, seen>>
    ELSE LET p == Head(newPosts) IN
         IF p \notin seen
         THEN IF Len(acc) + 1 >= limit
              THEN <<Append(acc, p), seen \cup {p}>>
              ELSE Collect(Append(acc, p), seen \cup {p}, Tail(newPosts), limit)
         ELSE Collect(acc, seen, Tail(newPosts), limit)

\* The dedup loop of the earlier extractPosts: append every unseen post.
RECURSIVE CollectAll(_, _, _)
CollectAll(acc, seen, newPosts) ==
    IF newPosts = <<>> THEN <<acc, seen>>
    ELSE LET p == Head(newPosts) IN
         IF p \notin seen
         THEN CollectAll(Append(acc, p), seen \cup {p}, Tail(newPosts))
         ELSE CollectAll(acc, seen, Tail(newPosts))

\* Some rendered post carries an ID rendered before, in an earlier pass or
\* earlier in this one.
Reappears(newPosts, seen) ==
    \E i \in 1..Len(newPosts) :
        \/ newPosts[i] \in seen
        \/ \E j \in 1..(i - 1) : newPosts[j] = newPosts[i]

\* "Limit to requested count" of the earlier extractPosts.
Truncate(s, n) == IF Len(s) > n THEN SubSeq(s, 1, n) ELSE s

\* Faulty variant of FeedCeiling: one pass for every post asked for.
FeedCeiling_PerPost(count) == count

FeedCeiling(count) == count \div FeedItemsPerScroll

\* What one evaluation of the content script can return: up to MaxVisible
\* articles, or, on the freshly loaded page, a full viewport of
\* FeedItemsPerScroll articles (the number the ceiling of the feed reckons
\* with).
FullViewport == [i \in 1..FeedItemsPerScroll |-> MaxID + i]
Rendered ==
    SeqsUpTo(RawIDs, MaxVisible) \cup (IF passes = 0 THEN {FullViewport} ELSE {})
ThreadCeiling(count) == count \div ReplyItemsPerScroll + ReplyExtraScrolls

\* expandTruncatedTweets on a viewport that shows "Show more" buttons or
\* none: it returns at once when it counts none, else clicks them one by one
\* (a click that fails is logged and skipped; an error of the count is
\* logged by the caller). Only extractVisiblePosts calls it.
NoExpand == [ran |-> FALSE, buttons |-> FALSE, clicked |-> FALSE]

ExpandOutcomes(kind) ==
    {[ran |-> kind = "feed", buttons |-> b, clicked |-> c] :
        b \in BOOLEAN, c \in BOOLEAN} \ {x \in [ran : BOOLEAN, buttons : BOOLEAN, clicked : {TRUE}] :
                                            ~x.ran \/ ~x.buttons}

\* The IDs read so far in order of first encounter, after one more pass.
RECURSIVE Encounter(_, _)
Encounter(enc, newPosts) ==
    IF newPosts = <<>> THEN enc
    ELSE Encounter(IF \E i \in 1..Len(enc) : enc[i] = Head(newPosts)
                   THEN enc ELSE Append(enc, Head(newPosts)),
                   Tail(newPosts))

\* Faulty variant of Discarded: the posts accumulated so far are returned
\* with the error.
Discarded_Partial(acc) == acc

\* return nil, err
Discarded(acc) == <<>>

\* ScrapeForYou / ScrapeThread after the loop: an error is wrapped and
\* returned without posts.
ScrapeResult(ps, err) == [posts |-> IF err THEN <<>> ELSE ps, err |-> err]

ScrollInit ==
    /\ scPc = "idle"
    /\ scKind = "feed"
    /\ maxCount = 0
    /\ maxScrollAttempts = 0
    /\ scrollAttempts = 0
    /\ posts = <<>>
    /\ seenIDs = {}
    /\ passes = 0
    /\ scrolls = 0
    /\ reappeared = FALSE
    /\ barrenPass = FALSE
    /\ retPosts = <<>>
    /\ retErr = FALSE
    /\ lastExpand = NoExpand
    /\ browserFailed = FALSE
    /\ rawEmpty = FALSE
    /\ encountered = <<>>
    /\ scrapePosts = <<>>
    /\ scrapeErr = FALSE

StartRun(kind, count, ceiling) ==
    /\ scPc = "idle"
    /\ scPc' = "loop"
    /\ scKind' = kind
    /\ maxCount' = count
    /\ maxScrollAttempts' = ceiling
    /\ scrollAttempts' = 0
    /\ posts' = <<>>
    /\ seenIDs' = {}
    /\ UNCHANGED <<passes, scrolls, reappeared, barrenPass, retPosts, retErr,
                   lastExpand, browserFailed, rawEmpty, encountered, scrapePosts,
                   scrapeErr>>
    /\ UNCHANGED exceptScroll

\* extractPosts: scrollAndCollect with maxScrollAttempts = count / 5.
ExtractPosts == \E count \in 0..MaxCount : StartRun("feed", count, FeedCeiling(count))

\* extractReplies: scrollAndCollect with maxScrollAttempts = count/3 + 5.
ExtractReplies == \E count \in 0..MaxCount : StartRun("thread", count, ThreadCeiling(count))

\* The earlier extractPosts, with its own loop and a final truncation.
LegacyExtractPosts == \E count \in 0..MaxCount : StartRun("legacyFeed", count, FeedCeiling(count))

\* Faulty variant of LoopContinues: the loop gives up after a pass that
\* appended nothing.
LoopContinues_StopWhenBarren ==
    /\ ~barrenPass
    /\ IF scKind = "legacyFeed"
       THEN Len(posts) < maxCount /\ scrollAttempts < maxScrollAttempts
       ELSE scrollAttempts < maxScrollAttempts

\* The loop condition.
LoopContinues ==
    IF scKind = "legacyFeed"
    THEN Len(posts) < maxCount /\ scrollAttempts < maxScrollAttempts
    ELSE scrollAttempts < maxScrollAttempts

\* scrollAndCollect returns, and ScrapeForYou / ScrapeThread after it.
Return(ps, err) ==
    /\ scPc' = "done"
    /\ retPosts' = ps
    /\ retErr' = err
    /\ scrapePosts' = ScrapeResult(ps, err).posts
    /\ scrapeErr' = ScrapeResult(ps, err).err

\* p.extractor(ctx) succeeds (after its "Show more" step, if it has one) and
\* the dedup loop runs over what it returned.
ExtractPass ==
    /\ scPc = "loop"
    /\ LoopContinues
    /\ lastExpand' \in ExpandOutcomes(scKind)
    /\ \E raw \in Rendered :
         LET newPosts == ConvertRaw(raw)
             r == IF scKind = "legacyFeed"
                  THEN CollectAll(posts, seenIDs, newPosts)
                  ELSE Collect(posts, seenIDs, newPosts, maxCount)
         IN /\ posts' = r[1]
            /\ seenIDs' = r[2]
            /\ reappeared' = (reappeared \/ Reappears(newPosts, seenIDs))
            /\ barrenPass' = (barrenPass \/ r[1] = posts)
            /\ rawEmpty' = (rawEmpty \/ \E i \in 1..Len(raw) : raw[i] = EmptyID)
            /\ encountered' = Encounter(encountered, newPosts)
    /\ passes' = passes + 1
    /\ scPc' = IF scKind = "legacyFeed" THEN "scroll" ELSE "check"
    /\ UNCHANGED <<scKind, maxCount, maxScrollAttempts, scrollAttempts, scrolls,
                   retPosts, retErr, browserFailed, scrapePosts, scrapeErr>>
    /\ UNCHANGED exceptScroll

\* p.extractor(ctx) fails: return nil, err.
ExtractFails ==
    /\ scPc = "loop"
    /\ LoopContinues
    /\ passes' = passes + 1
    /\ browserFailed' = TRUE
    /\ Return(Discarded(posts), TRUE)
    /\ UNCHANGED <<scKind, maxCount, maxScrollAttempts, scrollAttempts, posts,
                   seenIDs, scrolls, reappeared, barrenPass, lastExpand, rawEmpty,
                   encountered>>
    /\ UNCHANGED exceptScroll

\* if len(posts) >= p.maxCount { break }
TargetCheck ==
    /\ scPc = "check"
    /\ IF Len(posts) >= maxCount
       THEN Return(posts, FALSE)
       ELSE scPc' = "scroll" /\ UNCHANGED <<retPosts, retErr, scrapePosts, scrapeErr>>
    /\ UNCHANGED <<scKind, maxCount, maxScrollAttempts, scrollAttempts, posts,
                   seenIDs, passes, scrolls, reappeared, barrenPass, lastExpand,
                   browserFailed, rawEmpty, encountered>>
    /\ UNCHANGED exceptScroll

\* s.scroll(ctx) succeeds.
Scroll ==
    /\ scPc = "scroll"
    /\ scrolls' = scrolls + 1
    /\ scPc' = "sleep"
    /\ UNCHANGED <<scKind, maxCount, maxScrollAttempts, scrollAttempts, posts,
                   seenIDs, passes, reappeared, barrenPass, retPosts, retErr,
                   lastExpand, browserFailed, rawEmpty, encountered, scrapePosts,
                   scrapeErr>>
    /\ UNCHANGED exceptScroll

\* s.scroll(ctx) fails: return nil, err.
ScrollFails ==
    /\ scPc = "scroll"
    /\ scrolls' = scrolls + 1
    /\ browserFailed' = TRUE
    /\ Return(Discarded(posts), TRUE)
    /\ UNCHANGED <<scKind, maxCount, maxScrollAttempts, scrollAttempts, posts,
                   seenIDs, passes, reappeared, barrenPass, lastExpand, rawEmpty,
                   encountered>>
    /\ UNCHANGED exceptScroll

\* time.Sleep, then the loop's increment.
Sleep ==
    /\ scPc = "sleep"
    /\ scrollAttempts' = scrollAttempts + 1
    /\ scPc' = "loop"
    /\ UNCHANGED <<scKind, maxCount, maxScrollAttempts, posts, seenIDs, passes,
                   scrolls, reappeared, barrenPass, retPosts, retErr, lastExpand,
                   browserFailed, rawEmpty, encountered, scrapePosts, scrapeErr>>
    /\ UNCHANGED exceptScroll

\* The loop condition is false: return posts, nil (the earlier extractPosts
\* truncates first).
LoopExit ==
    /\ scPc = "loop"
    /\ ~LoopContinues
    /\ Return(IF scKind = "legacyFeed" THEN Truncate(posts, maxCount) ELSE posts, FALSE)
    /\ UNCHANGED <<scKind, maxCount, maxScrollAttempts, scrollAttempts, posts,
                   seenIDs, passes, scrolls, reappeared, barrenPass, lastExpand,
                   browserFailed, rawEmpty, encountered>>
    /\ UNCHANGED exceptScroll

ScrollNext ==
    \/ ExtractPosts
    \/ ExtractReplies
    \/ LegacyExtractPosts
    \/ ExtractPass
    \/ ExtractFails
    \/ TargetCheck
    \/ Scroll
    \/ ScrollFails
    \/ Sleep
    \/ LoopExit


\* ------------------------------------------------------------------ analyzer

\* Largest number of posts handed to AnalyzePosts.
MaxPosts == 4
\* Largest configured batch size.
MaxBatch == 3

\* config.InterestsConfig values an Analyzer may be built with.
InterestsConfigs == {"interestsA", "interestsB"}

NoErr == -1


\* Faulty variant of BatchEnd: the slice ends one post early.
BatchEnd_OffByOne(i) == Min(i + batchSize - 1, Len(anPosts))

\* end := min(i+a.batchSize, len(posts))
BatchEnd(i) == Min(i + batchSize, Len(anPosts))

\* posts[start:end], with Go's 0-based half-open bounds.
Slice(s, start, end) == SubSeq(s, start + 1, end)

\* Faulty variant of ResultSlot: results are stored in arrival order.
ResultSlot_Arrival(batchIdx) ==
    Cardinality({k \in DOMAIN task : task[k] = "finished" /\ k \notin failed})

\* results[batchIdx] = analyses: the slot a closure writes.
ResultSlot(batchIdx) == batchIdx

\* Faulty variant of RecordErr: a later error replaces the recorded one.
RecordErr_Overwrite(cur, new) == new

\* Faulty variant of RecordErr: errors of the batch calls are dropped.
RecordErr_Drop(cur, new) == cur

\* errgroup.Group.Go keeps the first non-nil error a closure returns.
RecordErr(cur, new) == IF cur = NoErr THEN new ELSE cur

\* Faulty variant of EmptyReturn: an empty post list is reported as an error.
EmptyReturn_Error == <<<<>>, 0>>

\* if len(posts) == 0 { return nil, nil }
EmptyReturn == <<<<>>, NoErr>>

\* "Flatten results in order": the slots 0..n-1 appended in turn.
RECURSIVE Flatten(_, _)
Flatten(slots, n) ==
    IF n = 0 THEN <<>> ELSE Flatten(slots, n - 1) \o slots[n - 1]

\* What a Provider that honours its contract returns for a batch: one
\* analysis per post, in input order (an analysis is modelled by its PostID).
Faithful(batch) == batch

\* Responses of a Provider: the faithful one, and one that lost a result.
Responses(batch) == {Faithful(batch), Tail(batch)}

AnalyzerInit ==
    /\ anPc = "idle"
    /\ anPosts = <<>>
    /\ batchSize \in 1..MaxBatch
    /\ interests \in InterestsConfigs
    /\ numBatches = 0
    /\ loopI = 0
    /\ task = <<>>
    /\ captured = <<>>
    /\ results = <<>>
    /\ gErr = NoErr
    /\ ctxCancelled = FALSE
    /\ calls = {}
    /\ numCalls = 0
    /\ provided = <<>>
    /\ failed = {}
    /\ firstFailed = NoErr
    /\ outOfOrder = FALSE
    /\ anRetResults = <<>>
    /\ anRetErr = NoErr

\* AnalyzePosts up to errgroup.WithContext: the empty short-circuit, or
\* numBatches and the pre-allocated results.
AnalyzePosts ==
    /\ anPc = "idle"
    /\ \E n \in 0..MaxPosts :
         /\ anPosts' = [i \in 1..n |-> i]
         /\ IF n = 0
            THEN /\ anPc' = "done"
                 /\ anRetResults' = EmptyReturn[1]
                 /\ anRetErr' = EmptyReturn[2]
                 /\ UNCHANGED <<numBatches, results>>
            ELSE /\ anPc' = "dispatch"
                 /\ numBatches' = (n + batchSize - 1) \div batchSize
                 /\ results' = [k \in 0..(numBatches' - 1) |-> <<>>]
                 /\ UNCHANGED <<anRetResults, anRetErr>>
    /\ loopI' = 0
    /\ UNCHANGED <<batchSize, interests, task, captured, gErr, ctxCancelled,
                   calls, numCalls, provided, failed, firstFailed, outOfOrder>>
    /\ UNCHANGED exceptAnalyzer

\* One iteration of the dispatch loop: g.Go spawns the closure for batch i.
Dispatch ==
    /\ anPc = "dispatch"
    /\ loopI < Len(anPosts)
    /\ LET batchIdx == loopI \div batchSize
           batch == Slice(anPosts, loopI, BatchEnd(loopI))
       IN /\ task' = (batchIdx :> "ready") @@ task
          /\ captured' = (batchIdx :> [batchIdx |-> batchIdx, batch |-> batch]) @@ captured
    /\ loopI' = loopI + batchSize
    /\ UNCHANGED <<anPc, anPosts, batchSize, interests, numBatches, results, gErr,
                   ctxCancelled, calls, numCalls, provided, failed, firstFailed,
                   outOfOrder, anRetResults, anRetErr>>
    /\ UNCHANGED exceptAnalyzer

\* The dispatch loop ends; the caller blocks in g.Wait().
DispatchDone ==
    /\ anPc = "dispatch"
    /\ loopI >= Len(anPosts)
    /\ anPc' = "wait"
    /\ UNCHANGED <<anPosts, batchSize, interests, numBatches, loopI, task, captured,
                   results, gErr, ctxCancelled, calls, numCalls, provided, failed,
                   firstFailed, outOfOrder, anRetResults, anRetErr>>
    /\ UNCHANGED exceptAnalyzer

\* Closure k calls a.provider.Analyze(ctx, batch, a.interests).
ProviderCall(k) ==
    /\ task[k] = "ready"
    /\ task' = [task EXCEPT ![k] = "calling"]
    /\ calls' = calls \cup {[closure |-> k, batch |-> captured[k].batch,
                             interests |-> interests]}
    /\ numCalls' = numCalls + 1
    /\ UNCHANGED <<anPc, anPosts, batchSize, interests, numBatches, loopI, captured,
                   results, gErr, ctxCancelled, provided, failed, firstFailed,
                   outOfOrder, anRetResults, anRetErr>>
    /\ UNCHANGED exceptAnalyzer

LowerUnfinished(k) == \E j \in 0..(k - 1) : j \notin DOMAIN task \/ task[j] # "finished"

\* The Provider answers closure k with analyses: results[batchIdx] = analyses.
ProviderSucceeds(k) ==
    /\ task[k] = "calling"
    /\ \E analyses \in Responses(captured[k].batch) :
         /\ results' = [results EXCEPT ![ResultSlot(captured[k].batchIdx)] = analyses]
         /\ provided' = (k :> analyses) @@ provided
    /\ task' = [task EXCEPT ![k] = "finished"]
    /\ outOfOrder' = (outOfOrder \/ LowerUnfinished(k))
    /\ UNCHANGED <<anPc, anPosts, batchSize, interests, numBatches, loopI, captured,
                   gErr, ctxCancelled, calls, numCalls, failed, firstFailed,
                   anRetResults, anRetErr>>
    /\ UNCHANGED exceptAnalyzer

\* The Provider answers closure k with an error: the closure returns it
\* wrapped with batchIdx, the errgroup records it and cancels the context.
ProviderFails(k) ==
    /\ task[k] = "calling"
    /\ task' = [task EXCEPT ![k] = "finished"]
    /\ gErr' = RecordErr(gErr, captured[k].batchIdx)
    /\ ctxCancelled' = TRUE
    /\ failed' = failed \cup {k}
    /\ firstFailed' = IF failed = {} THEN k ELSE firstFailed
    /\ outOfOrder' = (outOfOrder \/ LowerUnfinished(k))
    /\ UNCHANGED <<anPc, anPosts, batchSize, interests, numBatches, loopI, captured,
                   results, calls, numCalls, provided, anRetResults, anRetErr>>
    /\ UNCHANGED exceptAnalyzer

\* Faulty variant of WaitReturns: the caller returns as soon as an error is
\* recorded, while closures still run.
WaitReturns_OnFirstError ==
    /\ anPc = "wait"
    /\ gErr # NoErr \/ \A k \in DOMAIN task : task[k] = "finished"
    /\ anPc' = "done"
    /\ ctxCancelled' = TRUE
    /\ IF gErr # NoErr
       THEN anRetResults' = <<>> /\ anRetErr' = gErr
       ELSE anRetResults' = Flatten(results, numBatches) /\ anRetErr' = NoErr
    /\ UNCHANGED <<anPosts, batchSize, interests, numBatches, loopI, task, captured,
                   results, gErr, calls, numCalls, provided, failed, firstFailed,
                   outOfOrder>>
    /\ UNCHANGED exceptAnalyzer

\* g.Wait() returns once every closure has returned; then the error, or the
\* flattened results.
WaitReturns ==
    /\ anPc = "wait"
    /\ \A k \in DOMAIN task : task[k] = "finished"
    /\ anPc' = "done"
    /\ ctxCancelled' = TRUE
    /\ IF gErr # NoErr
       THEN anRetResults' = <<>> /\ anRetErr' = gErr
       ELSE anRetResults' = Flatten(results, numBatches) /\ anRetErr' = NoErr
    /\ UNCHANGED <<anPosts, batchSize, interests, numBatches, loopI, task, captured,
                   results, gErr, calls, numCalls, provided, failed, firstFailed,
                   outOfOrder>>
    /\ UNCHANGED exceptAnalyzer

AnalyzerNext ==
    \/ AnalyzePosts
    \/ Dispatch
    \/ DispatchDone
    \/ \E k \in DOMAIN task : ProviderCall(k)
    \/ \E k \in DOMAIN task : ProviderSucceeds(k)
    \/ \E k \in DOMAIN task : ProviderFails(k)
    \/ WaitReturns

\* -------------------------------------------------------------- cookie store

\* Last instant of the clock, in seconds.
MaxNow == 3

\* The zero time.Time (earliestExpiry before any auth cookie is seen): an
\* instant before every instant of the clock.
ZeroTime == -1

AuthNames == {"auth_token", "ct0"}
CookieNames == AuthNames \cup {"guest_id"}

\* network.Cookie.Expires is a float64 number of seconds: sec, plus half a
\* second when half is TRUE.
ExpiresValues == {[sec |-> 1, half |-> TRUE], [sec |-> 2, half |-> FALSE]}

\* network.Cookie.Domain, as its leading dot and its labels.
XLabels == <<"x", "com">>
DotXCom == [dot |-> TRUE, labels |-> XLabels]
XCom == [dot |-> FALSE, labels |-> XLabels]
DotDoubleclickNet == [dot |-> TRUE, labels |-> <<"doubleclick", "net">>]
ApiXCom == [dot |-> FALSE, labels |-> <<"api", "x", "com">>]
Domains == {DotXCom, XCom, DotDoubleclickNet, ApiXCom}

\* The cookie X sets: a value, on .x.com, expiring at second 2.
UsualCookie(name) ==
    [Name |-> name, Value |-> "v", Expires |-> [sec |-> 2, half |-> FALSE],
     Domain |-> DotXCom]

\* network.Cookie, by the fields the store reads. A cookie departs from the
\* usual one in at most one field; only the auth cookies are given an empty
\* Value, and they are set on .x.com.
Cookies ==
    {c \in [Name : CookieNames, Value : {"", "v"}, Expires : ExpiresValues,
             Domain : Domains] :
        /\ c.Name \notin AuthNames => c.Value # ""
        /\ c.Name \in AuthNames => c.Domain = DotXCom
        /\ Cardinality({f \in {"Value", "Expires", "Domain"} :
                            c[f] # UsualCookie(c.Name)[f]}) <= 1}

\* The cookie lists handed to Save: one cookie per name, in any order.
Bundles ==
    {b \in SeqsUpTo(Cookies, Cardinality(CookieNames)) :
        \A i, j \in 1..Len(b) : b[i].Name = b[j].Name => i = j}

NoFile == [kind |-> "absent"]
CorruptFile == [kind |-> "corrupt"]

\* time.Unix(int64(c.Expires), 0): the conversion drops the fraction.
UnixSeconds(expires) == expires.sec

\* Faulty variant of EarliestFrom: every cookie's expiry is considered.
RECURSIVE EarliestFrom_AllCookies(_, _)
EarliestFrom_AllCookies(earliest, cookies) ==
    IF cookies = <<>> THEN earliest
    ELSE LET exp == UnixSeconds(Head(cookies).Expires) IN
         EarliestFrom_AllCookies(
             IF earliest = ZeroTime \/ exp < earliest THEN exp ELSE earliest,
             Tail(cookies))

\* Save's loop: the earliest expiration among the auth-related cookies.
RECURSIVE EarliestFrom(_, _)
EarliestFrom(earliest, cookies) ==
    IF cookies = <<>> THEN earliest
    ELSE LET c == Head(cookies)
             exp == UnixSeconds(c.Expires)
         IN EarliestFrom(
                IF c.Name \in AuthNames /\ (earliest = ZeroTime \/ exp < earliest)
                THEN exp ELSE earliest,
                Tail(cookies))

\* The StoredCookies Save marshals (CapturedAt is left out: nothing reads it).
Stored(cookies) ==
    [kind |-> "stored", Cookies |-> cookies, ExpiresAt |-> EarliestFrom(ZeroTime, cookies)]

\* Load succeeds: the file exists and unmarshals.
LoadOK(f) == f.kind = "stored"

HasCookie(f, name) == \E i \in 1..Len(f.Cookies) : f.Cookies[i].Name = name

\* IsValid, on file f at time t.
IsValidResult(f, t) ==
    IF ~LoadOK(f) THEN FALSE
    ELSE IF t > f.ExpiresAt THEN FALSE
    ELSE HasCookie(f, "auth_token") /\ HasCookie(f, "ct0")

\* Faulty variant of WriteFile: the new content is appended to the old.
WriteFile_Append(old, new) ==
    IF old.kind = "stored"
    THEN [new EXCEPT !.Cookies = old.Cookies \o new.Cookies]
    ELSE new

\* os.WriteFile: the file is created or truncated, then written.
WriteFile(old, new) == new

\* Faulty variant of Remove: the call reports success and the file stays.
Remove_KeepsFile(f) == [ok |-> f # NoFile, file |-> f]

\* os.Remove(cs.path): an error when there is no file, else the file is gone.
Remove(f) == [ok |-> f # NoFile, file |-> NoFile]

\* Faulty variant of IsXDomain: every domain under x.com is taken.
IsXDomain_Suffix(d) ==
    /\ Len(d.labels) >= Len(XLabels)
    /\ SubSeq(d.labels, Len(d.labels) - Len(XLabels) + 1, Len(d.labels)) = XLabels

\* c.Domain == ".x.com" || c.Domain == "x.com"
IsXDomain(d) == d = DotXCom \/ d = XCom

\* The loop of GetXCookies over stored.Cookies.
XCookies(cookies) == SelectSeq(cookies, LAMBDA c : IsXDomain(c.Domain))

NoneSaved == [set |-> FALSE]

CookiesInit ==
    /\ file = NoFile
    /\ now = 0
    /\ lastOp = [op |-> "none"]
    /\ lastSaved = NoneSaved
    /\ loggedOut = FALSE

\* What a successful CookieStore.Save(cookies) does to the store.
SaveEffect(cookies) ==
    /\ file' = WriteFile(file, Stored(cookies))
    /\ lastSaved' = [set |-> TRUE, cookies |-> cookies]
    /\ lastOp' = [op |-> "Save", ok |-> TRUE,
                  over |-> (lastSaved.set /\ lastSaved.cookies # <<>>
                               /\ cookies # <<>> /\ lastSaved.cookies # cookies),
                  again |-> (lastSaved.set /\ lastSaved.cookies = cookies)]
    /\ loggedOut' = FALSE
    /\ UNCHANGED now

\* CookieStore.Save(cookies), the write succeeding.
Save ==
    /\ \E cookies \in Bundles : SaveEffect(cookies)
    /\ UNCHANGED exceptCookies

\* CookieStore.Load().
Load ==
    /\ lastOp' = IF LoadOK(file)
                 THEN [op |-> "Load", ok |-> TRUE, val |-> file]
                 ELSE [op |-> "Load", ok |-> FALSE]
    /\ UNCHANGED <<file, now, lastSaved, loggedOut>>
    /\ UNCHANGED exceptCookies

\* Faulty variant of IsValid: a bundle found invalid is deleted.
IsValid_DeletesInvalid ==
    /\ lastOp' = [op |-> "IsValid", val |-> IsValidResult(file, now),
                  loaded |-> LoadOK(file)]
    /\ file' = IF LoadOK(file) /\ ~IsValidResult(file, now) THEN NoFile ELSE file
    /\ lastSaved' = IF file' = file THEN lastSaved ELSE NoneSaved
    /\ UNCHANGED <<now, loggedOut>>
    /\ UNCHANGED exceptCookies

\* CookieStore.IsValid(). The result records whether its Load succeeded.
IsValid ==
    /\ lastOp' = [op |-> "IsValid", val |-> IsValidResult(file, now),
                  loaded |-> LoadOK(file)]
    /\ UNCHANGED <<file, now, lastSaved, loggedOut>>
    /\ UNCHANGED exceptCookies

\* CookieStore.Clear(): os.Remove fails when there is no file.
Clear ==
    /\ file' = Remove(file).file
    /\ lastOp' = [op |-> "Clear", ok |-> Remove(file).ok]
    /\ lastSaved' = NoneSaved
    /\ UNCHANGED <<now, loggedOut>>
    /\ UNCHANGED exceptCookies

\* CookieStore.GetXCookies().
GetXCookies ==
    /\ lastOp' = IF LoadOK(file)
                 THEN [op |-> "GetXCookies", ok |-> TRUE, val |-> XCookies(file.Cookies)]
                 ELSE [op |-> "GetXCookies", ok |-> FALSE]
    /\ UNCHANGED <<file, now, lastSaved, loggedOut>>
    /\ UNCHANGED exceptCookies

\* Manager.Logout(): return m.cookieStore.Clear().
Logout ==
    /\ file' = Remove(file).file
    /\ lastOp' = [op |-> "Logout", ok |-> Remove(file).ok]
    /\ lastSaved' = NoneSaved
    /\ loggedOut' = (loggedOut \/ Remove(file).ok)
    /\ UNCHANGED now
    /\ UNCHANGED exceptCookies

\* A second passes.
Tick ==
    /\ now < MaxNow
    /\ now' = now + 1
    /\ lastOp' = [op |-> "none"]
    /\ UNCHANGED <<file, lastSaved, loggedOut>>
    /\ UNCHANGED exceptCookies

\* The file's content stops being JSON that unmarshals into StoredCookies
\* (edited by hand, or cut short by a crash while it was written).
Damage ==
    /\ file.kind = "stored"
    /\ file' = CorruptFile
    /\ lastOp' = [op |-> "none"]
    /\ lastSaved' = NoneSaved
    /\ UNCHANGED <<now, loggedOut>>
    /\ UNCHANGED exceptCookies

CookiesNext ==
    \/ Save
    \/ Load
    \/ IsValid
    \/ Clear
    \/ GetXCookies
    \/ Logout
    \/ Tick
    \/ Damage

\* --------------------------------------------------------------------- login

\* Most ticks of waitForLogin's ticker handled in one attempt.
MaxPolls == 3

\* What chromedp.Location can report.
HomeURLs == {"https://x.com/home", "https://twitter.com/home"}
URLs == HomeURLs \cup {"https://x.com/login"}

\* What the browser can hold while the user logs in: up to two usual cookies,
\* the auth cookies with or without a value.
LoginJars ==
    {b \in Bundles :
        /\ Len(b) <= 2
        /\ \A i \in 1..Len(b) :
              /\ b[i].Expires = UsualCookie(b[i].Name).Expires
              /\ b[i].Domain = UsualCookie(b[i].Name).Domain
        /\ \A i, j \in 1..Len(b) :
              i < j => \/ b[i].Name = "auth_token"
                       \/ b[j].Name = "guest_id"}

\* The files a Login attempt may find.
PriorFiles ==
    {NoFile, CorruptFile,
     Stored(<<UsualCookie("auth_token"), UsualCookie("ct0")>>)}

\* The loop over cookies in waitForLogin.
HasAuthToken(cookies) ==
    \E i \in 1..Len(cookies) :
        cookies[i].Name = "auth_token" /\ cookies[i].Value # ""

\* Faulty variant of PollOutcome: the home URL is enough.
PollOutcome_UrlAlone(locErr, url, cookiesErr, cookies) ==
    IF locErr THEN "continue"
    ELSE IF url \in HomeURLs THEN "success"
    ELSE "continue"

\* Faulty variant of PollOutcome: a browser error ends the wait.
PollOutcome_ErrorReturns(locErr, url, cookiesErr, cookies) ==
    IF locErr THEN "error"
    ELSE IF url \in HomeURLs
         THEN IF cookiesErr THEN "error"
              ELSE IF HasAuthToken(cookies) THEN "success" ELSE "continue"
         ELSE "continue"

\* The ticker case of waitForLogin: an error of chromedp.Location or of
\* extractCookies skips the tick; the cookies are read only on a home URL.
PollOutcome(locErr, url, cookiesErr, cookies) ==
    IF locErr THEN "continue"
    ELSE IF url \in HomeURLs
         THEN IF cookiesErr THEN "continue"
              ELSE IF HasAuthToken(cookies) THEN "success" ELSE "continue"
         ELSE "continue"

NoPoll == [kind |-> "none"]
NotSet == [set |-> FALSE]

LoginInit ==
    /\ lgPc = "idle"
    /\ lgCtxDone = FALSE
    /\ lgPolls = 0
    /\ lgLastPoll = NoPoll
    /\ lgPollErrs = {}
    /\ lgUrlAlone = FALSE
    /\ lgCookieAlone = FALSE
    /\ lgDetected = NotSet
    /\ lgExtracted = NotSet
    /\ lgSaves = 0
    /\ lgResult = "none"
    /\ lgFileAtStart = NoFile

\* Login returns.
LoginReturns(result) ==
    /\ lgPc' = "done"
    /\ lgResult' = result

\* Manager.Login is called: the browser is launched.
Login ==
    /\ lgPc = "idle"
    /\ lgPc' = "navigate"
    /\ lgCtxDone' = FALSE
    /\ lgPolls' = 0
    /\ lgLastPoll' = NoPoll
    /\ lgPollErrs' = {}
    /\ lgUrlAlone' = FALSE
    /\ lgCookieAlone' = FALSE
    /\ lgDetected' = NotSet
    /\ lgExtracted' = NotSet
    /\ lgSaves' = 0
    /\ lgResult' = "none"
    /\ lgFileAtStart' = file
    /\ UNCHANGED cookieVars
    /\ UNCHANGED exceptSession

\* chromedp.Navigate("https://x.com/login") succeeds: waitForLogin starts.
Navigate ==
    /\ lgPc = "navigate"
    /\ ~lgCtxDone
    /\ lgPc' = "wait"
    /\ UNCHANGED <<lgCtxDone, lgPolls, lgLastPoll, lgPollErrs, lgUrlAlone,
                   lgCookieAlone, lgDetected, lgExtracted, lgSaves, lgResult,
                   lgFileAtStart>>
    /\ UNCHANGED cookieVars
    /\ UNCHANGED exceptSession

\* The navigation fails: Login returns "failed to navigate to login page".
NavigateFails ==
    /\ lgPc = "navigate"
    /\ LoginReturns("navigate")
    /\ UNCHANGED <<lgCtxDone, lgPolls, lgLastPoll, lgPollErrs, lgUrlAlone,
                   lgCookieAlone, lgDetected, lgExtracted, lgSaves, lgFileAtStart>>
    /\ UNCHANGED cookieVars
    /\ UNCHANGED exceptSession

\* The browser goes away (its window is closed): the context is cancelled.
BrowserCloses ==
    /\ lgPc \in {"navigate", "wait", "extract"}
    /\ ~lgCtxDone
    /\ lgCtxDone' = TRUE
    /\ UNCHANGED <<lgPc, lgPolls, lgLastPoll, lgPollErrs, lgUrlAlone,
                   lgCookieAlone, lgDetected, lgExtracted, lgSaves, lgResult,
                   lgFileAtStart>>
    /\ UNCHANGED cookieVars
    /\ UNCHANGED exceptSession

\* case <-timeout: "login timeout exceeded".
LoginTimeout ==
    /\ lgPc = "wait"
    /\ LoginReturns("timeout")
    /\ UNCHANGED <<lgCtxDone, lgPolls, lgLastPoll, lgPollErrs, lgUrlAlone,
                   lgCookieAlone, lgDetected, lgExtracted, lgSaves, lgFileAtStart>>
    /\ UNCHANGED cookieVars
    /\ UNCHANGED exceptSession

\* case <-ctx.Done(): return ctx.Err().
LoginCancelled ==
    /\ lgPc = "wait"
    /\ lgCtxDone
    /\ LoginReturns("cancelled")
    /\ UNCHANGED <<lgCtxDone, lgPolls, lgLastPoll, lgPollErrs, lgUrlAlone,
                   lgCookieAlone, lgDetected, lgExtracted, lgSaves, lgFileAtStart>>
    /\ UNCHANGED cookieVars
    /\ UNCHANGED exceptSession

\* case <-ticker.C: one tick of waitForLogin. The browser is at url and
\* holds cookies; either browser call may fail, and chromedp.Location does
\* once the context is cancelled.
Poll ==
    /\ lgPc = "wait"
    /\ lgPolls < MaxPolls
    /\ lgPolls' = lgPolls + 1
    /\ \E locErr \in BOOLEAN, url \in URLs, cookiesErr \in BOOLEAN, cookies \in LoginJars :
         LET out == PollOutcome(locErr, url, cookiesErr, cookies)
             home == url \in HomeURLs
             auth == HasAuthToken(cookies)
         IN /\ lgCtxDone => locErr
            /\ lgLastPoll' = [kind |-> "tick", locErr |-> locErr, home |-> home,
                              cookiesErr |-> cookiesErr, auth |-> auth]
            /\ lgPollErrs' = lgPollErrs \cup
                                 (IF locErr THEN {"location"}
                                  ELSE IF home /\ cookiesErr THEN {"cookies"}
                                  ELSE {})
            /\ lgUrlAlone' = (lgUrlAlone \/ (~locErr /\ home /\ ~cookiesErr /\ ~auth))
            /\ lgCookieAlone' = (lgCookieAlone \/ (~locErr /\ ~home /\ auth))
            /\ IF out = "success"
               THEN /\ lgPc' = "extract"
                    /\ lgDetected' = [set |-> TRUE, url |-> url, cookies |-> cookies]
                    /\ UNCHANGED lgResult
               ELSE IF out = "continue"
               THEN UNCHANGED <<lgPc, lgDetected, lgResult>>
               ELSE LoginReturns("poll") /\ UNCHANGED lgDetected
    /\ UNCHANGED <<lgCtxDone, lgExtracted, lgSaves, lgFileAtStart>>
    /\ UNCHANGED cookieVars
    /\ UNCHANGED exceptSession

\* m.extractCookies(browserCtx) after the wait: the cookies the browser
\* holds by then.
ExtractCookies ==
    /\ lgPc = "extract"
    /\ ~lgCtxDone
    /\ \E cookies \in LoginJars : lgExtracted' = [set |-> TRUE, cookies |-> cookies]
    /\ lgPc' = "save"
    /\ UNCHANGED <<lgCtxDone, lgPolls, lgLastPoll, lgPollErrs, lgUrlAlone,
                   lgCookieAlone, lgDetected, lgSaves, lgResult, lgFileAtStart>>
    /\ UNCHANGED cookieVars
    /\ UNCHANGED exceptSession

\* Faulty variant of ExtractCookiesFails: what was extracted (nothing) is saved
\* before the error is returned.
ExtractCookiesFails_SavesAnyway ==
    /\ lgPc = "extract"
    /\ LoginReturns("extract")
    /\ lgSaves' = lgSaves + 1
    /\ SaveEffect(<<>>)
    /\ UNCHANGED <<lgCtxDone, lgPolls, lgLastPoll, lgPollErrs, lgUrlAlone,
                   lgCookieAlone, lgDetected, lgExtracted, lgFileAtStart>>
    /\ UNCHANGED exceptSession

\* The extraction fails: Login returns "failed to extract cookies".
ExtractCookiesFails ==
    /\ lgPc = "extract"
    /\ LoginReturns("extract")
    /\ UNCHANGED <<lgCtxDone, lgPolls, lgLastPoll, lgPollErrs, lgUrlAlone,
                   lgCookieAlone, lgDetected, lgExtracted, lgSaves, lgFileAtStart>>
    /\ UNCHANGED cookieVars
    /\ UNCHANGED exceptSession

\* m.cookieStore.Save(cookies) succeeds: Login returns nil.
LoginSave ==
    /\ lgPc = "save"
    /\ lgSaves' = lgSaves + 1
    /\ SaveEffect(lgExtracted.cookies)
    /\ LoginReturns("ok")
    /\ UNCHANGED <<lgCtxDone, lgPolls, lgLastPoll, lgPollErrs, lgUrlAlone,
                   lgCookieAlone, lgDetected, lgExtracted, lgFileAtStart>>
    /\ UNCHANGED exceptSession

\* m.cookieStore.Save(cookies) fails: Login returns "failed to save
\* cookies". The file is as it was, or cut short by the failed write.
LoginSaveFails ==
    /\ lgPc = "save"
    /\ lgSaves' = lgSaves + 1
    /\ \E f \in {file, CorruptFile} :
         /\ file' = f
         /\ lastSaved' = IF f = file THEN lastSaved ELSE NoneSaved
    /\ lastOp' = [op |-> "Save", ok |-> FALSE]
    /\ LoginReturns("save")
    /\ UNCHANGED <<now, loggedOut>>
    /\ UNCHANGED <<lgCtxDone, lgPolls, lgLastPoll, lgPollErrs, lgUrlAlone,
                   lgCookieAlone, lgDetected, lgExtracted, lgFileAtStart>>
    /\ UNCHANGED exceptSession

LoginNext ==
    \/ Login
    \/ Navigate
    \/ NavigateFails
    \/ BrowserCloses
    \/ LoginTimeout
    \/ LoginCancelled
    \/ Poll
    \/ ExtractCookies
    \/ ExtractCookiesFails
    \/ LoginSave
    \/ LoginSaveFails

\* ------------------------------------------------------------------- logout

NoResult == [op |-> "none"]

LogoutInit ==
    /\ trayPc = "idle"
    /\ trayResult = NoResult
    /\ cliPc = "idle"
    /\ cliResult = NoResult

\* The auth menu item is clicked: a.IsAuthenticated() picks the branch.
TrayClick ==
    /\ trayPc = "idle"
    /\ trayPc' = IF IsValidResult(file, now) THEN "logout" ELSE "login"
    /\ lastOp' = [op |-> "IsValid", val |-> IsValidResult(file, now),
                  loaded |-> LoadOK(file)]
    /\ UNCHANGED <<file, now, lastSaved, loggedOut>>
    /\ UNCHANGED <<trayResult, cliPc, cliResult>>
    /\ UNCHANGED exceptLogout

\* App.TriggerLogout: the error of Manager.Logout is logged as "Logout
\* failed" and returned; found records whether there was a file to remove.
TriggerLogout ==
    /\ trayPc = "logout"
    /\ file' = Remove(file).file
    /\ lastOp' = [op |-> "Logout", ok |-> Remove(file).ok]
    /\ lastSaved' = NoneSaved
    /\ loggedOut' = (loggedOut \/ Remove(file).ok)
    /\ trayResult' = [op |-> "TriggerLogout", ok |-> Remove(file).ok,
                      found |-> file # NoFile]
    /\ trayPc' = "idle"
    /\ UNCHANGED now
    /\ UNCHANGED <<cliPc, cliResult>>
    /\ UNCHANGED exceptLogout

\* App.TriggerLogin, as a whole: Manager.Login fails and leaves the file, or
\* saves the cookies it extracted.
TriggerLogin ==
    /\ trayPc = "login"
    /\ \/ /\ trayResult' = [op |-> "TriggerLogin", ok |-> FALSE]
          /\ UNCHANGED cookieVars
       \/ /\ trayResult' = [op |-> "TriggerLogin", ok |-> TRUE]
          /\ \E cookies \in LoginJars : SaveEffect(cookies)
    /\ trayPc' = "idle"
    /\ UNCHANGED <<cliPc, cliResult>>
    /\ UNCHANGED exceptLogout

\* runClearCookies up to os.Stat: without a file, "nothing to clear".
CliStat ==
    /\ cliPc = "idle"
    /\ IF file = NoFile
       THEN /\ cliResult' = [op |-> "logout", exit |-> 0, found |-> FALSE]
            /\ UNCHANGED cliPc
       ELSE /\ cliPc' = "remove"
            /\ UNCHANGED cliResult
    /\ UNCHANGED cookieVars
    /\ UNCHANGED <<trayPc, trayResult>>
    /\ UNCHANGED exceptLogout

\* runClearCookies from os.Remove on: log.Fatalf when it fails.
CliRemove ==
    /\ cliPc = "remove"
    /\ file' = Remove(file).file
    /\ lastOp' = [op |-> "Clear", ok |-> Remove(file).ok]
    /\ lastSaved' = NoneSaved
    /\ cliResult' = [op |-> "logout", exit |-> IF Remove(file).ok THEN 0 ELSE 1,
                     found |-> file # NoFile]
    /\ cliPc' = "idle"
    /\ UNCHANGED <<now, loggedOut>>
    /\ UNCHANGED <<trayPc, trayResult>>
    /\ UNCHANGED exceptLogout

LogoutNext ==
    \/ TrayClick
    \/ TriggerLogout
    \/ TriggerLogin
    \/ CliStat
    \/ CliRemove
    \/ Tick

\* ------------------------------------------------------------------- digest

\* Most posts one scrape of the feed returns to the pipeline.
MaxScraped == 2

\* Analysis.RelevanceScore and config.Analysis.RelevanceThreshold, in tenths.
Scores == {4, 6, 9}
Thresholds == {6, 9}

\* What ScrapeForYou can return: posts with distinct IDs.
ScrapedPosts == {[i \in 1..n |-> i] : n \in 0..MaxScraped}

\* What AnalyzePosts can return for the posts: an analysis, or none, for
\* each post, in the posts' order.
RECURSIVE AnalysesFor(_)
AnalysesFor(ps) ==
    IF ps = <<>> THEN {<<>>}
    ELSE LET rest == AnalysesFor(Tail(ps))
         IN rest \cup {<<[PostID |-> Head(ps), RelevanceScore |-> sc]>> \o r :
                            sc \in Scores, r \in rest}

\* Provider calls of AnalyzePosts on n posts: none for no posts, else one
\* per batch.
ProviderCallsFor(n) == IF n = 0 THEN 0 ELSE (n + batchSize - 1) \div batchSize

\* Faulty variant of GuardPasses: the run goes on whatever IsAuthenticated
\* said.
GuardPasses_Always(authenticated) == TRUE

\* if !a.authManager.IsAuthenticated() { ... return }
GuardPasses(authenticated) == authenticated

\* if len(posts) == 0 { return nil }
NothingScraped(ps) == Len(ps) = 0

\* Faulty variant of NothingRelevant: the digest is built for no posts too.
NothingRelevant_Never(relevant) == FALSE

\* if len(relevantPosts) == 0 { return nil }
NothingRelevant(relevant) == Len(relevant) = 0

\* analysisMap after the first n analyses: for each PostID, the position of
\* the analysis the map points to (a later analysis replaces an earlier one
\* with the same PostID).
RECURSIVE AnalysisMap(_, _)
AnalysisMap(analyses, n) ==
    IF n = 0 THEN [id \in {} |-> 0]
    ELSE (analyses[n].PostID :> n) @@ AnalysisMap(analyses, n - 1)

\* Faulty variant of AboveThreshold: a score equal to the threshold is dropped.
AboveThreshold_Strict(score, threshold) == score > threshold

\* analysis.RelevanceScore >= s.config.Analysis.RelevanceThreshold
AboveThreshold(score, threshold) == score >= threshold

\* The loop over posts: a post without an entry in the map is skipped, one
\* with a score at or above the threshold is appended with its analysis.
RECURSIVE AppendRelevant(_, _, _, _, _)
AppendRelevant(relevantPosts, ps, analyses, analysisMap, threshold) ==
    IF ps = <<>> THEN relevantPosts
    ELSE LET post == Head(ps)
             ok == post \in DOMAIN analysisMap
             next ==
                 IF ~ok THEN relevantPosts
                 ELSE LET analysis == analyses[analysisMap[post]] IN
                      IF AboveThreshold(analysis.RelevanceScore, threshold)
                      THEN Append(relevantPosts, [Post |-> post, Analysis |-> analysis])
                      ELSE relevantPosts
         IN AppendRelevant(next, Tail(ps), analyses, analysisMap, threshold)

\* Step 3: the map from PostID to analysis, then the loop over the posts.
FilterByRelevance(ps, analyses, threshold) ==
    AppendRelevant(<<>>, ps, analyses, AnalysisMap(analyses, Len(analyses)), threshold)

DigestInit ==
    /\ gdPc = "idle"
    /\ gdKind = "generate"
    /\ gdThreshold \in Thresholds
    /\ gdAuth = FALSE
    /\ gdPosts = <<>>
    /\ gdAnalyses = <<>>
    /\ gdRelevant = <<>>
    /\ gdScrapes = 0
    /\ gdProviderCalls = 0
    /\ gdFilters = 0
    /\ gdBuilds = 0
    /\ gdResult = "none"
    /\ gdAnalyzes = 0
    /\ gdCacheFailed = {}
    /\ gdDigestSaved = FALSE
    /\ gdFailed = {}

\* The run returns.
DigestReturns(result) ==
    /\ gdPc' = "done"
    /\ gdResult' = result

\* Faulty variant of StepFails: a cache write that failed fails the step.
StepFails_OnCacheError(cached) == ~cached

\* if cachePath, err := store.SaveStepOutput(...); err != nil { log.Printf(...) }:
\* the error is logged and the step returns its value.
StepFails(cached) == FALSE

\* The cache write of a step, which succeeds or not.
CacheWrite(step, cached) ==
    gdCacheFailed' = IF cached THEN gdCacheFailed ELSE gdCacheFailed \cup {step}

\* App.GenerateDigest up to the guard: not authenticated, it returns nil.
GenerateDigest ==
    /\ gdPc = "idle"
    /\ gdKind' = "generate"
    /\ gdAuth' = IsValidResult(file, now)
    /\ IF GuardPasses(IsValidResult(file, now))
       THEN gdPc' = "cookies" /\ UNCHANGED gdResult
       ELSE DigestReturns("nil")
    /\ UNCHANGED <<gdThreshold, gdPosts, gdAnalyses, gdRelevant, gdScrapes,
                   gdProviderCalls, gdFilters, gdBuilds, gdAnalyzes, gdCacheFailed,
                   gdDigestSaved>>
    /\ UNCHANGED gdFailed
    /\ UNCHANGED cookieVars
    /\ UNCHANGED exceptDigest

\* The scrape step up to its guard: not authenticated, it returns an error.
StepScrape ==
    /\ gdPc = "idle"
    /\ gdKind' = "stepScrape"
    /\ gdAuth' = IsValidResult(file, now)
    /\ IF GuardPasses(IsValidResult(file, now))
       THEN gdPc' = "cookies" /\ UNCHANGED gdResult
       ELSE DigestReturns("notAuthenticated")
    /\ UNCHANGED <<gdThreshold, gdPosts, gdAnalyses, gdRelevant, gdScrapes,
                   gdProviderCalls, gdFilters, gdBuilds, gdAnalyzes, gdCacheFailed,
                   gdDigestSaved>>
    /\ UNCHANGED gdFailed
    /\ UNCHANGED cookieVars
    /\ UNCHANGED exceptDigest

\* a.authManager.GetCookies(): an error when the file does not load.
GetCookies ==
    /\ gdPc = "cookies"
    /\ IF LoadOK(file)
       THEN gdPc' = "scrape" /\ UNCHANGED <<gdResult, gdFailed>>
       ELSE DigestReturns("cookies") /\ gdFailed' = gdFailed \cup {"cookies"}
    /\ UNCHANGED <<gdKind, gdThreshold, gdAuth, gdPosts, gdAnalyses, gdRelevant,
                   gdScrapes, gdProviderCalls, gdFilters, gdBuilds, gdAnalyzes,
                   gdCacheFailed, gdDigestSaved>>
    /\ UNCHANGED cookieVars
    /\ UNCHANGED exceptDigest

\* Step 1: ScrapeForYou returns posts and caches them; the scrape step ends
\* here, and GenerateDigest does when there are no posts.
ScrapeForYou ==
    /\ gdPc = "scrape"
    /\ gdScrapes' = gdScrapes + 1
    /\ \E ps \in ScrapedPosts, cached \in BOOLEAN :
         /\ CacheWrite("scrape", cached)
         /\ IF StepFails(cached)
            THEN DigestReturns("cache") /\ UNCHANGED gdPosts
            ELSE /\ gdPosts' = ps
                 /\ IF gdKind = "stepScrape" \/ NothingScraped(ps)
                    THEN DigestReturns("nil")
                    ELSE gdPc' = "analyze" /\ UNCHANGED gdResult
    /\ UNCHANGED <<gdKind, gdThreshold, gdAuth, gdAnalyses, gdRelevant,
                   gdProviderCalls, gdFilters, gdBuilds, gdAnalyzes, gdDigestSaved>>
    /\ UNCHANGED gdFailed
    /\ UNCHANGED cookieVars
    /\ UNCHANGED exceptDigest

\* Step 1 fails: the error is returned.
ScrapeForYouFails ==
    /\ gdPc = "scrape"
    /\ gdScrapes' = gdScrapes + 1
    /\ gdFailed' = gdFailed \cup {"scrape"}
    /\ DigestReturns("scrape")
    /\ UNCHANGED <<gdKind, gdThreshold, gdAuth, gdPosts, gdAnalyses, gdRelevant,
                   gdProviderCalls, gdFilters, gdBuilds, gdAnalyzes, gdCacheFailed,
                   gdDigestSaved>>
    /\ UNCHANGED cookieVars
    /\ UNCHANGED exceptDigest

\* Step 2: AnalyzePosts returns analyses and caches them.
Analyze ==
    /\ gdPc = "analyze"
    /\ gdAnalyzes' = gdAnalyzes + 1
    /\ gdProviderCalls' = gdProviderCalls + ProviderCallsFor(Len(gdPosts))
    /\ \E analyses \in AnalysesFor(gdPosts), cached \in BOOLEAN :
         /\ CacheWrite("analyze", cached)
         /\ IF StepFails(cached)
            THEN DigestReturns("cache") /\ UNCHANGED gdAnalyses
            ELSE gdAnalyses' = analyses /\ gdPc' = "filter" /\ UNCHANGED gdResult
    /\ UNCHANGED <<gdKind, gdThreshold, gdAuth, gdPosts, gdRelevant, gdScrapes,
                   gdFilters, gdBuilds, gdDigestSaved>>
    /\ UNCHANGED gdFailed
    /\ UNCHANGED cookieVars
    /\ UNCHANGED exceptDigest

\* Faulty variant of AnalyzeFails: the run goes on to the filter with no
\* analyses.
AnalyzeFails_GoesOn ==
    /\ gdPc = "analyze"
    /\ Len(gdPosts) > 0
    /\ gdAnalyzes' = gdAnalyzes + 1
    /\ gdProviderCalls' = gdProviderCalls + ProviderCallsFor(Len(gdPosts))
    /\ gdFailed' = gdFailed \cup {"analyze"}
    /\ gdPc' = "filter"
    /\ UNCHANGED gdResult
    /\ UNCHANGED <<gdKind, gdThreshold, gdAuth, gdPosts, gdAnalyses, gdRelevant,
                   gdScrapes, gdFilters, gdBuilds, gdCacheFailed, gdDigestSaved>>
    /\ UNCHANGED cookieVars
    /\ UNCHANGED exceptDigest

\* Step 2 fails (a Provider call did): the error is returned.
AnalyzeFails ==
    /\ gdPc = "analyze"
    /\ Len(gdPosts) > 0
    /\ gdAnalyzes' = gdAnalyzes + 1
    /\ gdProviderCalls' = gdProviderCalls + ProviderCallsFor(Len(gdPosts))
    /\ gdFailed' = gdFailed \cup {"analyze"}
    /\ DigestReturns("analyze")
    /\ UNCHANGED <<gdKind, gdThreshold, gdAuth, gdPosts, gdAnalyses, gdRelevant,
                   gdScrapes, gdFilters, gdBuilds, gdCacheFailed, gdDigestSaved>>
    /\ UNCHANGED cookieVars
    /\ UNCHANGED exceptDigest

\* Step 3: the relevance filter and its cache write; with nothing relevant
\* the run returns nil.
Filter ==
    /\ gdPc = "filter"
    /\ gdFilters' = gdFilters + 1
    /\ \E cached \in BOOLEAN :
         /\ CacheWrite("filter", cached)
         /\ IF StepFails(cached)
            THEN DigestReturns("cache") /\ UNCHANGED gdRelevant
            ELSE /\ gdRelevant' = FilterByRelevance(gdPosts, gdAnalyses, gdThreshold)
                 /\ IF NothingRelevant(gdRelevant')
                    THEN DigestReturns("nil")
                    ELSE gdPc' = "context" /\ UNCHANGED gdResult
    /\ UNCHANGED <<gdKind, gdThreshold, gdAuth, gdPosts, gdAnalyses, gdScrapes,
                   gdProviderCalls, gdBuilds, gdAnalyzes, gdDigestSaved>>
    /\ UNCHANGED gdFailed
    /\ UNCHANGED cookieVars
    /\ UNCHANGED exceptDigest

\* Step 4: replies are fetched for the posts that need context; a thread
\* that fails is skipped.
FetchContext ==
    /\ gdPc = "context"
    /\ gdPc' = "build"
    /\ UNCHANGED <<gdKind, gdThreshold, gdAuth, gdPosts, gdAnalyses, gdRelevant,
                   gdScrapes, gdProviderCalls, gdFilters, gdBuilds, gdResult,
                   gdAnalyzes, gdCacheFailed, gdDigestSaved>>
    /\ UNCHANGED gdFailed
    /\ UNCHANGED cookieVars
    /\ UNCHANGED exceptDigest

\* Step 5: the digest is rendered, its markdown cached, and the digest saved
\* to the output directory; rendering and saving can fail.
Build ==
    /\ gdPc = "build"
    /\ gdBuilds' = gdBuilds + 1
    /\ \E rendered, cached, saved \in BOOLEAN :
         IF ~rendered
         THEN /\ DigestReturns("build")
              /\ gdFailed' = gdFailed \cup {"build"}
              /\ UNCHANGED <<gdCacheFailed, gdDigestSaved>>
         ELSE /\ CacheWrite("digest", cached)
              /\ IF StepFails(cached)
                 THEN DigestReturns("cache") /\ UNCHANGED <<gdDigestSaved, gdFailed>>
                 ELSE /\ gdDigestSaved' = saved
                      /\ gdFailed' = IF saved THEN gdFailed ELSE gdFailed \cup {"build"}
                      /\ DigestReturns(IF saved THEN "nil" ELSE "build")
    /\ UNCHANGED <<gdKind, gdThreshold, gdAuth, gdPosts, gdAnalyses, gdRelevant,
                   gdScrapes, gdProviderCalls, gdFilters, gdAnalyzes>>
    /\ UNCHANGED cookieVars
    /\ UNCHANGED exceptDigest

DigestNext ==
    \/ GenerateDigest
    \/ StepScrape
    \/ GetCookies
    \/ ScrapeForYou
    \/ ScrapeForYouFails
    \/ Analyze
    \/ AnalyzeFails
    \/ Filter
    \/ FetchContext
    \/ Build
    \/ Clear
    \/ Tick

\* ------------------------------------------------------------------- filter

\* Most posts handed to one call of the relevance filter.
MaxFiltered == 2

\* The posts of a call: posts 1..n in any order (IDs are unique within a
\* run).
FilterPosts ==
    UNION {{ps \in [1..n -> 1..n] : \A i, j \in 1..n : ps[i] = ps[j] => i = j} :
              n \in 0..MaxFiltered}

\* The analyses of a call: what the Provider answered, in any order, with any
\* PostID (MaxFiltered + 1 belongs to no post) and any score; a PostID may
\* come more than once.
FilterAnalyses ==
    SeqsUpTo([PostID : 1..(MaxFiltered + 1), RelevanceScore : Scores], MaxFiltered + 1)

\* Four posts with scores 0.4, 0.6, 0.6, 0.9.
ExamplePosts == <<1, 2, 3, 4>>
ExampleAnalyses ==
    <<[PostID |-> 1, RelevanceScore |-> 4], [PostID |-> 2, RelevanceScore |-> 6],
      [PostID |-> 3, RelevanceScore |-> 6], [PostID |-> 4, RelevanceScore |-> 9]>>

\* No call of the filter.
FilterRest ==
    /\ flPc = "ready"
    /\ flRelevant = <<>>
    /\ flCached = "none"

FilterInit ==
    /\ FilterRest
    /\ \/ /\ flPosts \in FilterPosts
          /\ flAnalyses \in FilterAnalyses
          /\ flThreshold \in Thresholds
       \/ /\ flPosts = ExamplePosts
          /\ flAnalyses = ExampleAnalyses
          /\ flThreshold = 6

\* One call of App.FilterByRelevance: the filter, then the cache write, whose
\* failure is logged.
FilterCall ==
    /\ flPc = "ready"
    /\ flPc' = "done"
    /\ flRelevant' = FilterByRelevance(flPosts, flAnalyses, flThreshold)
    /\ flCached' \in {"saved", "failed"}
    /\ UNCHANGED <<flPosts, flAnalyses, flThreshold>>
    /\ UNCHANGED exceptFilter

FilterNext == FilterCall

\* ------------------------------------------------------------- parseMetric

\* Most characters of a metric text between its padding and its suffix.
MaxMetricBody == 3

\* A float64 is kept as a mantissa and a binary exponent: its value is
\* mantissa * 2^exp. The mantissa is a sequence of limbs of LimbBits bits,
\* the lowest limb first and no leading zero limb. The counts here are
\* positive and far from the limits of the format.
MantissaBits == 53

LimbBits == 10

RECURSIVE Pow2(_)
Pow2(k) == IF k = 0 THEN 1 ELSE 2 * Pow2(k - 1)

LimbBase == Pow2(LimbBits)

RECURSIVE ToLimbs(_)
ToLimbs(n) == IF n = 0 THEN <<>> ELSE <<n % LimbBase>> \o ToLimbs(n \div LimbBase)

RECURSIVE ToNat(_)
ToNat(limbs) == IF limbs = <<>> THEN 0 ELSE Head(limbs) + LimbBase * ToNat(Tail(limbs))

\* The limbs without leading zero limbs.
RECURSIVE Normal(_)
Normal(limbs) ==
    IF limbs = <<>> \/ limbs[Len(limbs)] # 0 THEN limbs
    ELSE Normal(SubSeq(limbs, 1, Len(limbs) - 1))

\* The number of bits of a number below LimbBase, and of a mantissa.
RECURSIVE SmallBitLen(_)
SmallBitLen(n) == IF n = 0 THEN 0 ELSE 1 + SmallBitLen(n \div 2)

BitLen(limbs) ==
    IF limbs = <<>> THEN 0
    ELSE LimbBits * (Len(limbs) - 1) + SmallBitLen(limbs[Len(limbs)])

\* Bit i of a mantissa, bit 0 the lowest.
Bit(limbs, i) ==
    IF i \div LimbBits + 1 > Len(limbs) THEN 0
    ELSE (limbs[i \div LimbBits + 1] \div Pow2(i % LimbBits)) % 2

RECURSIVE Increment(_)
Increment(limbs) ==
    IF limbs = <<>> THEN <<1>>
    ELSE IF Head(limbs) < LimbBase - 1 THEN <<Head(limbs) + 1>> \o Tail(limbs)
    ELSE <<0>> \o Increment(Tail(limbs))

\* limbs * k + carry, for a small k.
RECURSIVE TimesSmall(_, _, _)
TimesSmall(limbs, k, carry) ==
    IF limbs = <<>> THEN ToLimbs(carry)
    ELSE <<(Head(limbs) * k + carry) % LimbBase>>
         \o TimesSmall(Tail(limbs), k, (Head(limbs) * k + carry) \div LimbBase)

\* Quotient and remainder of limbs by a small d.
RECURSIVE DivSmall(_, _)
DivSmall(limbs, d) ==
    IF limbs = <<>> THEN [q |-> <<>>, r |-> 0]
    ELSE LET hi == DivSmall(Tail(limbs), d)
             cur == LimbBase * hi.r + Head(limbs)
         IN [q |-> <<cur \div d>> \o hi.q, r |-> cur % d]

\* limbs * 2^k.
ShiftLeft(limbs, k) ==
    [i \in 1..(k \div LimbBits) |-> 0] \o TimesSmall(limbs, Pow2(k % LimbBits), 0)

\* limbs / 2^k, rounded down.
ShiftRight(limbs, k) ==
    IF k \div LimbBits >= Len(limbs) THEN <<>>
    ELSE Normal(DivSmall(SubSeq(limbs, k \div LimbBits + 1, Len(limbs)),
                         Pow2(k % LimbBits)).q)

RECURSIVE Pow10(_)
Pow10(d) == IF d = 0 THEN 1 ELSE 10 * Pow10(d - 1)

FloatZero == [mantissa |-> <<>>, exp |-> 0]

\* The float64 nearest to n / 10^d (ties to the even mantissa), which is
\* what strconv.ParseFloat returns for a decimal text.
NearestFloat(n, d) ==
    IF n = 0 THEN FloatZero
    ELSE LET den == Pow10(d)
             a == BitLen(ToLimbs(n))
             b == BitLen(ToLimbs(den))
             Quot(shift) == DivSmall(ShiftLeft(ToLimbs(n), shift), den)
             exact == CHOOSE shift \in {MantissaBits - 1 - a + b, MantissaBits - a + b} :
                          BitLen(Normal(Quot(shift).q)) = MantissaBits
             q == Normal(Quot(exact).q)
             r == Quot(exact).r
             up == 2 * r > den \/ (2 * r = den /\ Bit(q, 0) = 1)
         IN [mantissa |-> IF up THEN Increment(q) ELSE q, exp |-> 0 - exact]

\* A mantissa rounded to MantissaBits bits (ties to even), with the exponent
\* of the lowest bit kept.
RoundToMantissa(limbs) ==
    LET drop == BitLen(limbs) - MantissaBits
    IN IF drop <= 0 THEN [mantissa |-> limbs, exp |-> 0]
       ELSE LET kept == ShiftRight(limbs, drop)
                sticky == \E i \in 0..(drop - 2) : Bit(limbs, i) = 1
                up == Bit(limbs, drop - 1) = 1 /\ (sticky \/ Bit(kept, 0) = 1)
            IN [mantissa |-> IF up THEN Increment(kept) ELSE kept, exp |-> drop]

\* value * multiplier in float64, for a multiplier that is a small integer.
FloatTimes(value, multiplier) ==
    LET product == RoundToMantissa(Normal(TimesSmall(value.mantissa, multiplier, 0)))
    IN [mantissa |-> product.mantissa, exp |-> value.exp + product.exp]

\* int(f): the fraction is dropped.
FloatToInt(f) ==
    ToNat(IF f.exp >= 0 THEN ShiftLeft(f.mantissa, f.exp)
          ELSE ShiftRight(f.mantissa, 0 - f.exp))

\* Texts are sequences of characters.
DigitValue ==
    [c \in {"0", "1", "2", "3", "4", "5", "6", "7", "8", "9"} |->
        CASE c = "0" -> 0 [] c = "1" -> 1 [] c = "2" -> 2 [] c = "3" -> 3
          [] c = "4" -> 4 [] c = "5" -> 5 [] c = "6" -> 6 [] c = "7" -> 7
          [] c = "8" -> 8 [] c = "9" -> 9]

IsDigit(c) == c \in DOMAIN DigitValue

\* strings.TrimSpace
RECURSIVE TrimLeft(_)
TrimLeft(s) == IF s # <<>> /\ Head(s) = " " THEN TrimLeft(Tail(s)) ELSE s

RECURSIVE TrimRight(_)
TrimRight(s) ==
    IF s # <<>> /\ s[Len(s)] = " " THEN TrimRight(SubSeq(s, 1, Len(s) - 1)) ELSE s

TrimSpace(s) == TrimRight(TrimLeft(s))

\* strings.ReplaceAll(s, ",", "")
RemoveCommas(s) == SelectSeq(s, LAMBDA c : c # ",")

\* strings.HasSuffix(strings.ToUpper(s), suffix) for a one-letter suffix.
HasSuffixUpper(s, lower, upper) == s # <<>> /\ s[Len(s)] \in {lower, upper}

\* The digits of a text as a number.
RECURSIVE DigitsValue(_)
DigitsValue(s) ==
    IF s = <<>> THEN 0
    ELSE 10 * DigitsValue(SubSeq(s, 1, Len(s) - 1)) + DigitValue[s[Len(s)]]

\* strconv.ParseFloat(s, 64) on a text of digits, points, letters K and M,
\* spaces and other signs: it takes digits with at most one point and at
\* least one digit, and fails on everything else.
ParseFloat(s) ==
    LET points == {i \in 1..Len(s) : s[i] = "."}
        digits == SelectSeq(s, IsDigit)
        wellFormed ==
            /\ \A i \in 1..Len(s) : IsDigit(s[i]) \/ s[i] = "."
            /\ Cardinality(points) <= 1
            /\ Len(digits) >= 1
        decimals == IF points = {} THEN 0 ELSE Len(s) - (CHOOSE i \in points : TRUE)
    IN IF wellFormed
       THEN [err |-> FALSE, value |-> NearestFloat(DigitsValue(digits), decimals)]
       ELSE [err |-> TRUE, value |-> FloatZero]

ThousandMultiplier == 1000
MillionMultiplier == 1000000

\* parseMetric
ParseMetric(text) ==
    IF text = <<>> THEN 0
    ELSE LET trimmed == RemoveCommas(TrimSpace(text))
             isK == HasSuffixUpper(trimmed, "k", "K")
             isM == ~isK /\ HasSuffixUpper(trimmed, "m", "M")
             factor == IF isK THEN ThousandMultiplier
                       ELSE IF isM THEN MillionMultiplier ELSE 1
             numeral == IF isK \/ isM THEN SubSeq(trimmed, 1, Len(trimmed) - 1)
                        ELSE trimmed
             parsed == ParseFloat(numeral)
         IN IF parsed.err THEN 0
            ELSE FloatToInt(FloatTimes(parsed.value, factor))

\* The metric texts: some padding, a body of digits, commas and points, and
\* a suffix; and the texts of the documentation.
MetricBodies == SeqsUpTo({"0", "1", "4", ",", "."}, MaxMetricBody)
MetricSuffixes == {<<>>, <<"K">>, <<"k">>, <<"M">>, <<"m">>, <<"?">>}
MetricPaddings == {<<>>, <<" ">>}

DocumentedMetrics ==
    {<<"1", ",", "2", "3", "4">>, <<"1", ".", "2", "K">>, <<"5", ".", "7", "M">>,
     <<"4", "2", "3">>}

MetricTexts ==
    {l \o body \o suffix \o r :
        l \in MetricPaddings, body \in MetricBodies, suffix \in MetricSuffixes,
        r \in MetricPaddings} \cup DocumentedMetrics

\* No call of parseMetric.
MetricRest ==
    /\ pmPc = "ready"
    /\ pmResult = 0

MetricInit ==
    /\ MetricRest
    /\ pmText \in MetricTexts

\* One call of parseMetric.
ParseMetricCall ==
    /\ pmPc = "ready"
    /\ pmPc' = "done"
    /\ pmResult' = ParseMetric(pmText)
    /\ UNCHANGED pmText
    /\ UNCHANGED exceptMetric

MetricNext == ParseMetricCall

\* ------------------------------------------------------ config snapshots

\* Most calls of config.Load that return a config.
MaxReloads == 2

Reloaders == {1, 2}
Readers == {1, 2}

\* What the config file can hold when it is loaded.
FileContents == {"old", "edited"}

\* App.mu.RLock returns only while no writer holds the lock.
CanRLock_Unguarded == TRUE

CanRLock == muWriter = 0

\* App.mu.Lock returns only while nobody holds the lock.
CanLock == muWriter = 0 /\ muReaders = {}

NoSnapshot == [config |-> -1, scraper |-> -1, analyzer |-> -1]

\* New: the three fields from its arguments, the mutex unlocked.
SnapshotInit ==
    /\ appConfig = 0
    /\ appScraper = 0
    /\ appAnalyzer = 0
    /\ muWriter = 0
    /\ muReaders = {}
    /\ loads = 0
    /\ cfgContent = <<>>
    /\ rcPc = [r \in Reloaders |-> "idle"]
    /\ rcCfg = [r \in Reloaders |-> 0]
    /\ rcNewAnalyzer = [r \in Reloaders |-> 0]
    /\ rcResult = [r \in Reloaders |-> "none"]
    /\ gsPc = [d \in Readers |-> "idle"]
    /\ gsLiteral = [d \in Readers |-> NoSnapshot]
    /\ gsSnapshot = [d \in Readers |-> NoSnapshot]

\* ReloadConfig: config.Load returns a new config.
ConfigLoad(r) ==
    /\ rcPc[r] = "idle"
    /\ loads < MaxReloads
    /\ loads' = loads + 1
    /\ \E content \in FileContents : cfgContent' = Append(cfgContent, content)
    /\ rcCfg' = [rcCfg EXCEPT ![r] = loads + 1]
    /\ rcPc' = [rcPc EXCEPT ![r] = "loaded"]
    /\ rcResult' = [rcResult EXCEPT ![r] = "none"]
    /\ UNCHANGED <<appConfig, appScraper, appAnalyzer, muWriter, muReaders,
                   rcNewAnalyzer, gsPc, gsLiteral, gsSnapshot>>
    /\ UNCHANGED exceptSnapshot

\* ReloadConfig: config.Load fails, and ReloadConfig returns its error.
ConfigLoadFails(r) ==
    /\ rcPc[r] = "idle"
    /\ rcResult' = [rcResult EXCEPT ![r] = "loadErr"]
    /\ UNCHANGED <<appConfig, appScraper, appAnalyzer, muWriter, muReaders, loads,
                   cfgContent, rcPc, rcCfg, rcNewAnalyzer, gsPc, gsLiteral,
                   gsSnapshot>>
    /\ UNCHANGED exceptSnapshot

\* ReloadConfig: analyzer.New builds the analyzer of the new config.
NewAnalyzer(r) ==
    /\ rcPc[r] = "loaded"
    /\ rcNewAnalyzer' = [rcNewAnalyzer EXCEPT ![r] = rcCfg[r]]
    /\ rcPc' = [rcPc EXCEPT ![r] = "built"]
    /\ UNCHANGED <<appConfig, appScraper, appAnalyzer, muWriter, muReaders, loads,
                   cfgContent, rcCfg, rcResult, gsPc, gsLiteral, gsSnapshot>>
    /\ UNCHANGED exceptSnapshot

\* Faulty variant of NewAnalyzerFails: the config is installed before the
\* analyzer is built, and stays when analyzer.New fails.
NewAnalyzerFails_ConfigInstalled(r) ==
    /\ rcPc[r] = "loaded"
    /\ rcPc' = [rcPc EXCEPT ![r] = "idle"]
    /\ rcResult' = [rcResult EXCEPT ![r] = "analyzerErr"]
    /\ appConfig' = rcCfg[r]
    /\ UNCHANGED <<appScraper, appAnalyzer, muWriter, muReaders, loads,
                   cfgContent, rcCfg, rcNewAnalyzer, gsPc, gsLiteral, gsSnapshot>>
    /\ UNCHANGED exceptSnapshot

\* ReloadConfig: analyzer.New fails, and ReloadConfig returns its error.
NewAnalyzerFails(r) ==
    /\ rcPc[r] = "loaded"
    /\ rcPc' = [rcPc EXCEPT ![r] = "idle"]
    /\ rcResult' = [rcResult EXCEPT ![r] = "analyzerErr"]
    /\ UNCHANGED <<appConfig, appScraper, appAnalyzer, muWriter, muReaders, loads,
                   cfgContent, rcCfg, rcNewAnalyzer, gsPc, gsLiteral, gsSnapshot>>
    /\ UNCHANGED exceptSnapshot

\* ReloadConfig: a.mu.Lock()
Lock(r) ==
    /\ rcPc[r] = "built"
    /\ CanLock
    /\ muWriter' = r
    /\ rcPc' = [rcPc EXCEPT ![r] = "setConfig"]
    /\ UNCHANGED <<appConfig, appScraper, appAnalyzer, muReaders, loads, cfgContent,
                   rcCfg, rcNewAnalyzer, rcResult, gsPc, gsLiteral, gsSnapshot>>
    /\ UNCHANGED exceptSnapshot

\* ReloadConfig: a.config = cfg
SetConfig(r) ==
    /\ rcPc[r] = "setConfig"
    /\ appConfig' = rcCfg[r]
    /\ rcPc' = [rcPc EXCEPT ![r] = "setAnalyzer"]
    /\ UNCHANGED <<appScraper, appAnalyzer, muWriter, muReaders, loads, cfgContent,
                   rcCfg, rcNewAnalyzer, rcResult, gsPc, gsLiteral, gsSnapshot>>
    /\ UNCHANGED exceptSnapshot

\* ReloadConfig: a.analyzer = newAnalyzer
SetAnalyzer(r) ==
    /\ rcPc[r] = "setAnalyzer"
    /\ appAnalyzer' = rcNewAnalyzer[r]
    /\ rcPc' = [rcPc EXCEPT ![r] = "setScraper"]
    /\ UNCHANGED <<appConfig, appScraper, muWriter, muReaders, loads, cfgContent,
                   rcCfg, rcNewAnalyzer, rcResult, gsPc, gsLiteral, gsSnapshot>>
    /\ UNCHANGED exceptSnapshot

\* ReloadConfig: a.scraper = scraper.New(cfg.Scraping...)
SetScraper(r) ==
    /\ rcPc[r] = "setScraper"
    /\ appScraper' = rcCfg[r]
    /\ rcPc' = [rcPc EXCEPT ![r] = "unlock"]
    /\ UNCHANGED <<appConfig, appAnalyzer, muWriter, muReaders, loads, cfgContent,
                   rcCfg, rcNewAnalyzer, rcResult, gsPc, gsLiteral, gsSnapshot>>
    /\ UNCHANGED exceptSnapshot

\* ReloadConfig: a.mu.Unlock(), and the return of nil.
Unlock(r) ==
    /\ rcPc[r] = "unlock"
    /\ muWriter' = IF muWriter = r THEN 0 ELSE muWriter
    /\ rcPc' = [rcPc EXCEPT ![r] = "idle"]
    /\ rcResult' = [rcResult EXCEPT ![r] = "ok"]
    /\ UNCHANGED <<appConfig, appScraper, appAnalyzer, muReaders, loads, cfgContent,
                   rcCfg, rcNewAnalyzer, gsPc, gsLiteral, gsSnapshot>>
    /\ UNCHANGED exceptSnapshot

\* getSnapshot: a.mu.RLock()
RLock(d) ==
    /\ gsPc[d] = "idle"
    /\ CanRLock
    /\ muReaders' = muReaders \cup {d}
    /\ gsLiteral' = [gsLiteral EXCEPT ![d] = NoSnapshot]
    /\ gsPc' = [gsPc EXCEPT ![d] = "config"]
    /\ UNCHANGED <<appConfig, appScraper, appAnalyzer, muWriter, loads, cfgContent,
                   rcPc, rcCfg, rcNewAnalyzer, rcResult, gsSnapshot>>
    /\ UNCHANGED exceptSnapshot

\* getSnapshot: config: a.config
ReadConfig(d) ==
    /\ gsPc[d] = "config"
    /\ gsLiteral' = [gsLiteral EXCEPT ![d].config = appConfig]
    /\ gsPc' = [gsPc EXCEPT ![d] = "scraper"]
    /\ UNCHANGED <<appConfig, appScraper, appAnalyzer, muWriter, muReaders, loads,
                   cfgContent, rcPc, rcCfg, rcNewAnalyzer, rcResult, gsSnapshot>>
    /\ UNCHANGED exceptSnapshot

\* getSnapshot: scraper: a.scraper
ReadScraper(d) ==
    /\ gsPc[d] = "scraper"
    /\ gsLiteral' = [gsLiteral EXCEPT ![d].scraper = appScraper]
    /\ gsPc' = [gsPc EXCEPT ![d] = "analyzer"]
    /\ UNCHANGED <<appConfig, appScraper, appAnalyzer, muWriter, muReaders, loads,
                   cfgContent, rcPc, rcCfg, rcNewAnalyzer, rcResult, gsSnapshot>>
    /\ UNCHANGED exceptSnapshot

\* getSnapshot: analyzer: a.analyzer
ReadAnalyzer(d) ==
    /\ gsPc[d] = "analyzer"
    /\ gsLiteral' = [gsLiteral EXCEPT ![d].analyzer = appAnalyzer]
    /\ gsPc' = [gsPc EXCEPT ![d] = "unlock"]
    /\ UNCHANGED <<appConfig, appScraper, appAnalyzer, muWriter, muReaders, loads,
                   cfgContent, rcPc, rcCfg, rcNewAnalyzer, rcResult, gsSnapshot>>
    /\ UNCHANGED exceptSnapshot

\* getSnapshot: the deferred a.mu.RUnlock(), and the return of the literal.
RUnlock(d) ==
    /\ gsPc[d] = "unlock"
    /\ muReaders' = muReaders \ {d}
    /\ gsSnapshot' = [gsSnapshot EXCEPT ![d] = gsLiteral[d]]
    /\ gsPc' = [gsPc EXCEPT ![d] = "idle"]
    /\ UNCHANGED <<appConfig, appScraper, appAnalyzer, muWriter, loads, cfgContent,
                   rcPc, rcCfg, rcNewAnalyzer, rcResult, gsLiteral>>
    /\ UNCHANGED exceptSnapshot

SnapshotNext ==
    \/ \E r \in Reloaders : ConfigLoad(r)
    \/ \E r \in Reloaders : ConfigLoadFails(r)
    \/ \E r \in Reloaders : NewAnalyzer(r)
    \/ \E r \in Reloaders : NewAnalyzerFails(r)
    \/ \E r \in Reloaders : Lock(r)
    \/ \E r \in Reloaders : SetConfig(r)
    \/ \E r \in Reloaders : SetAnalyzer(r)
    \/ \E r \in Reloaders : SetScraper(r)
    \/ \E r \in Reloaders : Unlock(r)
    \/ \E d \in Readers : RLock(d)
    \/ \E d \in Readers : ReadConfig(d)
    \/ \E d \in Readers : ReadScraper(d)
    \/ \E d \in Readers : ReadAnalyzer(d)
    \/ \E d \in Readers : RUnlock(d)

\* ------------------------------------------------- the file during a Save

\* The file os.WriteFile has opened with O_TRUNC and not yet written, and the
\* file of which only a part of the data has reached the disk: neither
\* unmarshals.
EmptyFile == [kind |-> "empty"]
PartialFile == [kind |-> "partial"]

\* The bundles a Login saves: the usual cookies, the auth cookies first.
SavedBundles ==
    {b \in LoginJars : \A i \in 1..Len(b) : b[i] = UsualCookie(b[i].Name)}

SaveRest ==
    /\ swPc = "idle"
    /\ swCookies = <<>>

\* Save: os.WriteFile opens the file with O_WRONLY|O_CREATE|O_TRUNC.
SaveOpens ==
    /\ swPc = "idle"
    /\ \E cookies \in SavedBundles : swCookies' = cookies
    /\ swPc' = "opened"
    /\ file' = EmptyFile
    /\ lastOp' = [op |-> "none"]
    /\ lastSaved' = NoneSaved
    /\ UNCHANGED <<now, loggedOut>>
    /\ UNCHANGED exceptSave

\* Save: a part of the data is in the file.
SaveWritesPart ==
    /\ swPc = "opened"
    /\ swPc' = "partial"
    /\ file' = PartialFile
    /\ lastOp' = [op |-> "none"]
    /\ UNCHANGED <<now, lastSaved, loggedOut, swCookies>>
    /\ UNCHANGED exceptSave

\* Save: all the data is in the file, and os.WriteFile returns nil.
SaveCompletes ==
    /\ swPc \in {"opened", "partial"}
    /\ swPc' = "idle"
    /\ SaveEffect(swCookies)
    /\ UNCHANGED swCookies
    /\ UNCHANGED exceptSave

\* The readers of the file are Load, IsValid and GetXCookies of the store.
SaveRaceNext ==
    \/ SaveOpens
    \/ SaveWritesPart
    \/ SaveCompletes
    \/ Load
    \/ IsValid
    \/ GetXCookies
    \/ Tick

\* No Save in progress.
SaveParked == SaveRest

\* A Save of a Login beside the readers of the file, over a file that holds
\* the bundle of an earlier Login.
SaveRaceInit ==
    /\ SaveRest
    /\ \E cookies \in SavedBundles : file = Stored(cookies)
    /\ now = 0
    /\ lastOp = [op |-> "none"]
    /\ lastSaved = NoneSaved
    /\ loggedOut = FALSE

\* ------------------------------------------------------ the Claude provider

\* Most posts of a batch, and most results in a response.
MaxProviderBatch == 2

\* The batches: posts with distinct IDs.
ProviderBatches ==
    {b \in SeqsUpTo(IDs, MaxProviderBatch) :
        \A i, j \in 1..Len(b) : b[i] = b[j] => i = j}

\* The results the model can write: any post_id, of the batch or not, with
\* any score.
AnalysisResults == [PostID : IDs, RelevanceScore : Scores]

\* What c.client.Messages.New gives back: an error, a message without a text
\* block (or with an empty one), a text that does not continue "[" to JSON of
\* the expected shape, or a text that continues it to an array of results.
ApiResponses ==
    {[kind |-> "apiError"], [kind |-> "noText"], [kind |-> "badJSON"]}
        \cup {[kind |-> "results", results |-> r] :
                 r \in SeqsUpTo(AnalysisResults, MaxProviderBatch)}

\* ParseAnalysisResponse on the array: analyses[i] is made from results[i].
ParseAnalysisResponse(parsed) ==
    [i \in 1..Len(parsed) |->
        [PostID |-> parsed[i].PostID, RelevanceScore |-> parsed[i].RelevanceScore]]

\* What Analyze returns for a response.
AnalyzeOutcome(response) ==
    CASE response.kind = "apiError" -> [analyses |-> <<>>, err |-> "api"]
      [] response.kind = "noText" -> [analyses |-> <<>>, err |-> "empty"]
      [] response.kind = "badJSON" -> [analyses |-> <<>>, err |-> "parse"]
      [] response.kind = "results" ->
            [analyses |-> ParseAnalysisResponse(response.results), err |-> "none"]

ProviderRest ==
    /\ pvPc = "ready"
    /\ pvResponse = [kind |-> "none"]
    /\ pvAnalyses = <<>>
    /\ pvErr = "none"

ProviderInit ==
    /\ ProviderRest
    /\ pvBatch \in ProviderBatches

\* Analyze: buildPrompt and c.client.Messages.New.
MessagesNew ==
    /\ pvPc = "ready"
    /\ pvPc' = "called"
    /\ pvResponse' \in ApiResponses
    /\ UNCHANGED <<pvBatch, pvAnalyses, pvErr>>
    /\ UNCHANGED exceptProvider

\* Analyze: the rest of the call, up to its return.
AnalyzeReturns ==
    /\ pvPc = "called"
    /\ pvPc' = "done"
    /\ pvAnalyses' = AnalyzeOutcome(pvResponse).analyses
    /\ pvErr' = AnalyzeOutcome(pvResponse).err
    /\ UNCHANGED <<pvBatch, pvResponse>>
    /\ UNCHANGED exceptProvider

ProviderNext ==
    \/ MessagesNew
    \/ AnalyzeReturns

\* No call of the provider.
ProviderParked == ProviderRest /\ pvBatch = <<>>

\* ------------------------------------------------------------ a scrape call

\* Largest maxScrollAttempts of a scrape call.
MaxAttempts == 2

\* Faulty variant of OpOutcomes: the operation does not look at its context.
OpOutcomes_IgnoresContext(ctxDone) == {"ok", "err"}

\* chromedp.Run(ctx, ...): an error when ctx is done before the operation
\* has finished; else the operation succeeds or fails for its own reasons.
OpOutcomes(ctxDone) == IF ctxDone THEN {"err"} ELSE {"ok", "err"}

ScrapeRest ==
    /\ cxPc = "idle"
    /\ cxAttempts = 0
    /\ cxErr = FALSE
    /\ cxCtxDone = FALSE
    /\ cxDoneAt = "never"
    /\ cxOpAfterDone = FALSE
    /\ cxAllocLive = FALSE
    /\ cxBrowserLive = FALSE
    /\ cxResult = "none"

ScrapeInit ==
    /\ ScrapeRest
    /\ cxKind \in {"feed", "thread"}
    /\ cxDebugPause \in BOOLEAN
    /\ cxMax \in 0..MaxAttempts

\* The call starts: chromedp.NewExecAllocator, chromedp.NewContext,
\* context.WithTimeout.
ScrapeStarts ==
    /\ cxPc = "idle"
    /\ cxPc' = "inject"
    /\ cxAllocLive' = TRUE
    /\ cxBrowserLive' = TRUE
    /\ UNCHANGED <<cxKind, cxDebugPause, cxMax, cxAttempts, cxErr, cxCtxDone, cxDoneAt,
                   cxOpAfterDone, cxResult>>
    /\ UNCHANGED exceptScrape

\* A browser operation: on success the call goes to next, on an error to
\* onErr with err set.
BrowserOp(next, onErr) ==
    /\ \E outcome \in OpOutcomes(cxCtxDone) :
          /\ cxPc' = IF outcome = "ok" THEN next ELSE onErr
          /\ cxErr' = (outcome = "err")
    /\ cxOpAfterDone' = (cxOpAfterDone \/ cxCtxDone)
    /\ UNCHANGED <<cxKind, cxDebugPause, cxMax, cxAttempts, cxCtxDone, cxDoneAt,
                   cxAllocLive, cxBrowserLive, cxResult>>

\* s.injectCookies; its error is returned at once.
InjectCookies ==
    /\ cxPc = "inject"
    /\ BrowserOp("navigate", "return")
    /\ UNCHANGED exceptScrape

\* chromedp.Run(Navigate, WaitVisible); its error is returned at once.
NavigateTo ==
    /\ cxPc = "navigate"
    /\ BrowserOp(IF cxKind = "feed" THEN "loop" ELSE "settle", "return")
    /\ UNCHANGED exceptScrape

\* ScrapeThread: time.Sleep(2 * time.Second).
Settle ==
    /\ cxPc = "settle"
    /\ cxPc' = "loop"
    /\ UNCHANGED <<cxKind, cxDebugPause, cxMax, cxAttempts, cxErr, cxCtxDone, cxDoneAt,
                   cxOpAfterDone, cxAllocLive, cxBrowserLive, cxResult>>
    /\ UNCHANGED exceptScrape

\* scrollAndCollect: scrollAttempts < p.maxScrollAttempts, or the loop ends.
LoopTest ==
    /\ cxPc = "loop"
    /\ cxPc' = IF cxAttempts < cxMax THEN "extract" ELSE "after"
    /\ UNCHANGED <<cxKind, cxDebugPause, cxMax, cxAttempts, cxErr, cxCtxDone, cxDoneAt,
                   cxOpAfterDone, cxAllocLive, cxBrowserLive, cxResult>>
    /\ UNCHANGED exceptScrape

\* scrollAndCollect: p.extractor(ctx), the dedup loop and the target check:
\* the loop breaks when len(posts) >= p.maxCount.
ExtractAndCheck ==
    /\ cxPc = "extract"
    /\ \E reached \in BOOLEAN : BrowserOp(IF reached THEN "after" ELSE "scroll", "after")
    /\ UNCHANGED exceptScrape

\* scrollAndCollect: s.scroll(ctx).
ScrollView ==
    /\ cxPc = "scroll"
    /\ BrowserOp("sleep", "after")
    /\ UNCHANGED exceptScrape

\* scrollAndCollect: time.Sleep, and scrollAttempts++.
SleepAfterScroll ==
    /\ cxPc = "sleep"
    /\ cxPc' = "loop"
    /\ cxAttempts' = cxAttempts + 1
    /\ UNCHANGED <<cxKind, cxDebugPause, cxMax, cxErr, cxCtxDone, cxDoneAt,
                   cxOpAfterDone, cxAllocLive, cxBrowserLive, cxResult>>
    /\ UNCHANGED exceptScrape

\* ScrapeForYou after extractPosts, whatever it returned: the debug pause.
\* ScrapeThread has none.
AfterExtract ==
    /\ cxPc = "after"
    /\ cxPc' = IF cxKind = "feed" /\ cxDebugPause THEN "pause" ELSE "return"
    /\ UNCHANGED <<cxKind, cxDebugPause, cxMax, cxAttempts, cxErr, cxCtxDone, cxDoneAt,
                   cxOpAfterDone, cxAllocLive, cxBrowserLive, cxResult>>
    /\ UNCHANGED exceptScrape

\* fmt.Scanln() returns: somebody pressed Enter.
EnterPressed ==
    /\ cxPc = "pause"
    /\ cxPc' = "return"
    /\ UNCHANGED <<cxKind, cxDebugPause, cxMax, cxAttempts, cxErr, cxCtxDone, cxDoneAt,
                   cxOpAfterDone, cxAllocLive, cxBrowserLive, cxResult>>
    /\ UNCHANGED exceptScrape

\* defer allocCancel() / defer browserCancel(): run on every return.
Deferred(live, err) == FALSE

\* The call returns: nil and the error, or the posts; the deferred cancel
\* functions run.
ScrapeReturns ==
    /\ cxPc = "return"
    /\ cxPc' = "done"
    /\ cxResult' = IF cxErr THEN "error" ELSE "posts"
    /\ cxAllocLive' = Deferred(cxAllocLive, cxErr)
    /\ cxBrowserLive' = Deferred(cxBrowserLive, cxErr)
    /\ UNCHANGED <<cxKind, cxDebugPause, cxMax, cxAttempts, cxErr, cxCtxDone, cxDoneAt,
                   cxOpAfterDone>>
    /\ UNCHANGED exceptScrape

\* The caller cancels ctx during the call: the contexts derived from it are
\* cancelled with it, and the allocator stops the browser.
CallerCancels ==
    /\ cxPc \notin {"idle", "done"}
    /\ ~cxCtxDone
    /\ cxCtxDone' = TRUE
    /\ cxDoneAt' = cxPc
    /\ cxAllocLive' = FALSE
    /\ cxBrowserLive' = FALSE
    /\ UNCHANGED <<cxPc, cxKind, cxDebugPause, cxMax, cxAttempts, cxErr, cxOpAfterDone,
                   cxResult>>
    /\ UNCHANGED exceptScrape

\* The deadline of context.WithTimeout passes during the call.
DeadlinePasses ==
    /\ cxPc \notin {"idle", "done"}
    /\ ~cxCtxDone
    /\ cxCtxDone' = TRUE
    /\ cxDoneAt' = cxPc
    /\ UNCHANGED <<cxPc, cxKind, cxDebugPause, cxMax, cxAttempts, cxErr, cxOpAfterDone,
                   cxAllocLive, cxBrowserLive, cxResult>>
    /\ UNCHANGED exceptScrape

\* The steps of the call itself.
ScrapeSteps ==
    \/ ScrapeStarts
    \/ InjectCookies
    \/ NavigateTo
    \/ Settle
    \/ LoopTest
    \/ ExtractAndCheck
    \/ ScrollView
    \/ SleepAfterScroll
    \/ AfterExtract
    \/ ScrapeReturns

ScrapeNext ==
    \/ ScrapeSteps
    \/ EnterPressed
    \/ CallerCancels
    \/ DeadlinePasses

\* No scrape call.
ScrapeParked ==
    /\ ScrapeRest
    /\ cxKind = "feed"
    /\ cxDebugPause = FALSE
    /\ cxMax = 0

\* ----------------------------------------- AnalyzePosts and the batch size

\* Most Provider calls followed in one call of AnalyzePosts.
MaxCalls == 5

\* AnalysisConfig.BatchSize is an int: 0 when the key is absent, and any
\* number the file holds.
BatchSizes == (0 - MaxBatch)..MaxBatch

Abs(a) == IF a < 0 THEN 0 - a ELSE a

\* a / b of Go for b # 0: the quotient is truncated toward zero.
GoDiv(a, b) ==
    IF (a < 0) = (b < 0) THEN Abs(a) \div Abs(b) ELSE 0 - (Abs(a) \div Abs(b))

SizeRest ==
    /\ bsPc = "idle"
    /\ bsI = 0
    /\ bsNumBatches = 0
    /\ bsRunning = 0
    /\ bsErr = FALSE
    /\ bsCalls = 0
    /\ bsOutcome = "none"

SizeInit ==
    /\ SizeRest
    /\ bsKind \in {"concurrent", "sequential"}
    /\ bsSize \in BatchSizes
    /\ bsLen \in 1..MaxPosts

\* The call ends.
SizeEnds(outcome) ==
    /\ bsPc' = "done"
    /\ bsOutcome' = outcome

\* analyzer.go: numBatches := (len(posts) + a.batchSize - 1) / a.batchSize,
\* which panics when a.batchSize is 0. The earlier AnalyzePosts goes to its
\* loop at once.
NumBatches ==
    /\ bsPc = "idle"
    /\ IF bsKind = "sequential"
       THEN bsPc' = "loop" /\ UNCHANGED <<bsNumBatches, bsOutcome>>
       ELSE IF bsSize = 0
       THEN SizeEnds("panic") /\ UNCHANGED bsNumBatches
       ELSE /\ bsPc' = "alloc"
            /\ bsNumBatches' = GoDiv(bsLen + bsSize - 1, bsSize)
            /\ UNCHANGED bsOutcome
    /\ UNCHANGED <<bsKind, bsSize, bsLen, bsI, bsRunning, bsErr, bsCalls>>
    /\ UNCHANGED exceptSize

\* analyzer.go: results := make([][]types.Analysis, numBatches), which panics
\* when numBatches is negative.
MakeResults ==
    /\ bsPc = "alloc"
    /\ IF bsNumBatches < 0
       THEN SizeEnds("panic")
       ELSE bsPc' = "loop" /\ UNCHANGED bsOutcome
    /\ UNCHANGED <<bsKind, bsSize, bsLen, bsI, bsNumBatches, bsRunning, bsErr, bsCalls>>
    /\ UNCHANGED exceptSize

\* One iteration of the loop over i: end := min(i+a.batchSize, len(posts))
\* and posts[i:end], which panics when end < i; then g.Go of the closure
\* (analyzer.go), or the Provider call itself (the earlier AnalyzePosts).
BatchLoop ==
    /\ bsPc = "loop"
    /\ bsI < bsLen
    /\ bsCalls < MaxCalls
    /\ IF Min(bsI + bsSize, bsLen) < bsI
       THEN SizeEnds("panic") /\ UNCHANGED <<bsI, bsRunning, bsCalls>>
       ELSE /\ bsCalls' = bsCalls + 1
            /\ UNCHANGED bsOutcome
            /\ IF bsKind = "concurrent"
               THEN /\ bsRunning' = bsRunning + 1
                    /\ bsI' = bsI + bsSize
                    /\ bsPc' = "loop"
               ELSE /\ bsPc' = "call"
                    /\ UNCHANGED <<bsI, bsRunning>>
    /\ UNCHANGED <<bsKind, bsSize, bsLen, bsNumBatches, bsErr>>
    /\ UNCHANGED exceptSize

\* The earlier AnalyzePosts: the Provider answers. An error is returned,
\* wrapped with i/a.batchSize, which panics when a.batchSize is 0; and else
\* i += a.batchSize.
SequentialAnswer ==
    /\ bsPc = "call"
    /\ \E ok \in BOOLEAN :
          IF ok
          THEN bsPc' = "loop" /\ bsI' = bsI + bsSize /\ UNCHANGED <<bsErr, bsOutcome>>
          ELSE /\ SizeEnds(IF bsSize = 0 THEN "panic" ELSE "error")
               /\ bsErr' = TRUE
               /\ UNCHANGED bsI
    /\ UNCHANGED <<bsKind, bsSize, bsLen, bsNumBatches, bsRunning, bsCalls>>
    /\ UNCHANGED exceptSize

\* analyzer.go: the Provider answers a closure, which returns.
ClosureReturns ==
    /\ bsKind = "concurrent"
    /\ bsRunning > 0
    /\ bsRunning' = bsRunning - 1
    /\ \E ok \in BOOLEAN : bsErr' = (bsErr \/ ~ok)
    /\ UNCHANGED <<bsPc, bsKind, bsSize, bsLen, bsI, bsNumBatches, bsCalls, bsOutcome>>
    /\ UNCHANGED exceptSize

\* The loop is over: the earlier AnalyzePosts returns its analyses; in
\* analyzer.go g.Wait() follows.
LoopOver ==
    /\ bsPc = "loop"
    /\ bsI >= bsLen
    /\ IF bsKind = "sequential"
       THEN SizeEnds("results")
       ELSE bsPc' = "wait" /\ UNCHANGED bsOutcome
    /\ UNCHANGED <<bsKind, bsSize, bsLen, bsI, bsNumBatches, bsRunning, bsErr, bsCalls>>
    /\ UNCHANGED exceptSize

\* analyzer.go: g.Wait() returns when every closure has returned.
WaitOver ==
    /\ bsPc = "wait"
    /\ bsRunning = 0
    /\ SizeEnds(IF bsErr THEN "error" ELSE "results")
    /\ UNCHANGED <<bsKind, bsSize, bsLen, bsI, bsNumBatches, bsRunning, bsErr, bsCalls>>
    /\ UNCHANGED exceptSize

SizeNext ==
    \/ NumBatches
    \/ MakeResults
    \/ BatchLoop
    \/ SequentialAnswer
    \/ ClosureReturns
    \/ LoopOver
    \/ WaitOver

\* No such call.
SizeParked ==
    /\ SizeRest
    /\ bsKind = "concurrent"
    /\ bsSize = 1
    /\ bsLen = 1

\* ------------------------------------------------- a GenerateDigest run

RunRest ==
    /\ grPc = "idle"
    /\ grSnap = NoSnapshot
    /\ grUsed = {}

RunInit ==
    /\ RunRest
    /\ grKind \in {"single", "staged"}

\* What getSnapshot returns when it runs now: the three fields, read under
\* the read lock.
CurrentSnapshot == [config |-> appConfig, scraper |-> appScraper, analyzer |-> appAnalyzer]

\* The snapshot a stage works with: s of GenerateDigest (app.go), or the
\* result of the stage method's own a.getSnapshot().
StageSnapshot == IF grKind = "staged" THEN CurrentSnapshot ELSE grSnap

\* A stage method's a.getSnapshot() returns only while no writer holds the
\* lock.
StageMayRead == grKind = "staged" => CanRLock

\* GenerateDigest up to its first stage; app.go takes s := a.getSnapshot().
GenerateDigestStarts ==
    /\ grPc = "idle"
    /\ grPc' = "scrape"
    /\ IF grKind = "single"
       THEN CanRLock /\ grSnap' = CurrentSnapshot
       ELSE UNCHANGED grSnap
    /\ UNCHANGED <<grKind, grUsed>>
    /\ UNCHANGED exceptRun

\* Step 1: s.scraper.ScrapeForYou(ctx, cookies, s.config.Scraping.PostsPerScrape);
\* the run ends on an error and on no posts.
StageScrape ==
    /\ grPc = "scrape"
    /\ StageMayRead
    /\ grUsed' = grUsed \cup {<<"PostsPerScrape", StageSnapshot.config>>,
                              <<"scraper", StageSnapshot.scraper>>}
    /\ \E goesOn \in BOOLEAN : grPc' = IF goesOn THEN "analyze" ELSE "done"
    /\ UNCHANGED <<grKind, grSnap>>
    /\ UNCHANGED exceptRun

\* Step 2: s.analyzer.AnalyzePosts(ctx, posts); the run ends on an error.
StageAnalyze ==
    /\ grPc = "analyze"
    /\ StageMayRead
    /\ grUsed' = grUsed \cup {<<"analyzer", StageSnapshot.analyzer>>}
    /\ \E goesOn \in BOOLEAN : grPc' = IF goesOn THEN "filter" ELSE "done"
    /\ UNCHANGED <<grKind, grSnap>>
    /\ UNCHANGED exceptRun

\* Step 3: the filter by s.config.Analysis.RelevanceThreshold; the run ends
\* when no post is relevant.
StageFilter ==
    /\ grPc = "filter"
    /\ StageMayRead
    /\ grUsed' = grUsed \cup {<<"RelevanceThreshold", StageSnapshot.config>>}
    /\ \E goesOn \in BOOLEAN : grPc' = IF goesOn THEN "build" ELSE "done"
    /\ UNCHANGED <<grKind, grSnap>>
    /\ UNCHANGED exceptRun

\* Step 5: digest.New(s.config.Digest.OutputDir, s.config.Digest.MaxPosts)
\* and the build.
StageBuild ==
    /\ grPc = "build"
    /\ StageMayRead
    /\ grUsed' = grUsed \cup {<<"Digest", StageSnapshot.config>>}
    /\ grPc' = "done"
    /\ UNCHANGED <<grKind, grSnap>>
    /\ UNCHANGED exceptRun

RunNext ==
    \/ GenerateDigestStarts
    \/ StageScrape
    \/ StageAnalyze
    \/ StageFilter
    \/ StageBuild
    \/ \E r \in Reloaders : ConfigLoad(r)
    \/ \E r \in Reloaders : ConfigLoadFails(r)
    \/ \E r \in Reloaders : NewAnalyzer(r)
    \/ \E r \in Reloaders : NewAnalyzerFails(r)
    \/ \E r \in Reloaders : Lock(r)
    \/ \E r \in Reloaders : SetConfig(r)
    \/ \E r \in Reloaders : SetAnalyzer(r)
    \/ \E r \in Reloaders : SetScraper(r)
    \/ \E r \in Reloaders : Unlock(r)

\* No such run.
RunParked ==
    /\ RunRest
    /\ grKind = "single"

\* ------------------------------------------------------ tray dispatch loop

\* Most GenerateDigest goroutines followed at once.
MaxTasks == 2

\* The menu items whose click the loop handles on its own goroutine, at
\* once.
ShortItems == {"ViewLastDigest", "EditConfig", "ReloadConfig"}

TrayRest ==
    /\ trPc = "select"
    /\ trLoginActive = FALSE
    /\ trLoginPolls = 0
    /\ trDigests = 0
    /\ trHandled = "none"

TrayInit ==
    /\ TrayRest
    /\ trAuthenticated \in BOOLEAN

\* case <-mAuthAction.ClickedCh, authenticated: a.TriggerLogout() and
\* updateAuthUI(), on the goroutine of the loop.
ClickLogout ==
    /\ trPc = "select"
    /\ trAuthenticated
    /\ trAuthenticated' = FALSE
    /\ trHandled' = "Logout"
    /\ UNCHANGED <<trPc, trLoginActive, trLoginPolls, trDigests>>
    /\ UNCHANGED exceptTray

\* case <-mAuthAction.ClickedCh, not authenticated: a.TriggerLogin() is
\* called on the goroutine of the loop.
ClickLogin ==
    /\ trPc = "select"
    /\ ~trAuthenticated
    /\ trPc' = "login"
    /\ trLoginActive' = TRUE
    /\ trLoginPolls' = 0
    /\ trHandled' = "Login"
    /\ UNCHANGED <<trAuthenticated, trDigests>>
    /\ UNCHANGED exceptTray

\* Manager.waitForLogin: one more poll without the login signals.
LoginWaits ==
    /\ trPc = "login"
    /\ trLoginPolls < MaxPolls
    /\ trLoginPolls' = trLoginPolls + 1
    /\ UNCHANGED <<trPc, trAuthenticated, trLoginActive, trDigests, trHandled>>
    /\ UNCHANGED exceptTray

\* a.TriggerLogin() returns, with or without a login; updateAuthUI(), and
\* the loop selects again.
TriggerLoginReturns ==
    /\ trPc = "login"
    /\ \E ok \in BOOLEAN : trAuthenticated' = ok
    /\ trLoginActive' = FALSE
    /\ trPc' = "select"
    /\ UNCHANGED <<trLoginPolls, trDigests, trHandled>>
    /\ UNCHANGED exceptTray

\* case <-mGenerateDigest.ClickedCh: go func() { a.GenerateDigest() }()
ClickGenerateDigest ==
    /\ trPc = "select"
    /\ trDigests < MaxTasks
    /\ trDigests' = trDigests + 1
    /\ trHandled' = "GenerateDigest"
    /\ UNCHANGED <<trPc, trAuthenticated, trLoginActive, trLoginPolls>>
    /\ UNCHANGED exceptTray

\* A GenerateDigest goroutine ends.
DigestTaskEnds ==
    /\ trDigests > 0
    /\ trDigests' = trDigests - 1
    /\ UNCHANGED <<trPc, trAuthenticated, trLoginActive, trLoginPolls, trHandled>>
    /\ UNCHANGED exceptTray

\* The clicks on View Last Digest, Edit Config and Reload Config.
ClickShort ==
    /\ trPc = "select"
    /\ \E item \in ShortItems : trHandled' = item
    /\ UNCHANGED <<trPc, trAuthenticated, trLoginActive, trLoginPolls, trDigests>>
    /\ UNCHANGED exceptTray

\* case <-mQuit.ClickedCh: systray.Quit()
ClickQuit ==
    /\ trPc = "select"
    /\ trPc' = "quit"
    /\ trHandled' = "Quit"
    /\ UNCHANGED <<trAuthenticated, trLoginActive, trLoginPolls, trDigests>>
    /\ UNCHANGED exceptTray

TrayNext ==
    \/ ClickLogout
    \/ ClickLogin
    \/ LoginWaits
    \/ TriggerLoginReturns
    \/ ClickGenerateDigest
    \/ DigestTaskEnds
    \/ ClickShort
    \/ ClickQuit

\* No tray.
TrayParked ==
    /\ TrayRest
    /\ trAuthenticated = FALSE

\* ----------------------------------------------------------- specifications

\* No ReloadConfig and no getSnapshot.
SnapshotParked == SnapshotInit

\* No call of parseMetric.
MetricParked == MetricRest /\ pmText = <<>>

\* No call of the relevance filter.
FilterParked ==
    /\ FilterRest
    /\ flPosts = <<>>
    /\ flAnalyses = <<>>
    /\ flThreshold = 6

\* Nobody logs out.
LogoutParked == LogoutInit

\* No run of the pipeline.
DigestParked == DigestInit /\ gdThreshold = 6

\* A cookie store that holds one of the files a session can find.
CookiesFound ==
    /\ file \in PriorFiles
    /\ now = 0
    /\ lastOp = [op |-> "none"]
    /\ lastSaved = NoneSaved
    /\ loggedOut = FALSE

\* The analyzer at rest, for the behaviours of the other components.
AnalyzerParked == AnalyzerInit /\ batchSize = 1 /\ interests = "interestsA"

\* The cookie store at rest.
CookiesParked == CookiesInit

\* The scroll-collect run at rest, for the behaviours of the other components.
ScrollParked == ScrollInit

\* No Login attempt.
LoginParked == LoginInit

\* One scroll-collect run.
InitScroll ==
    /\ ScrollInit /\ AnalyzerParked /\ CookiesParked /\ LoginParked /\ LogoutParked /\ DigestParked
    /\ FilterParked /\ MetricParked /\ SnapshotParked /\ SaveParked /\ ProviderParked /\ ScrapeParked /\ SizeParked /\ RunParked /\ TrayParked

SpecScroll == InitScroll /\ [][ScrollNext]_vars

\* The same run, which takes its next step as long as it has one: the loop
\* is sequential code, and every browser call and sleep in it returns.
SpecScrollLive == SpecScroll /\ WF_vars(ScrollNext)

\* One AnalyzePosts call of an Analyzer built with any batch size >= 1.
InitAnalyzer ==
    /\ AnalyzerInit /\ ScrollParked /\ CookiesParked /\ LoginParked /\ LogoutParked /\ DigestParked
    /\ FilterParked /\ MetricParked /\ SnapshotParked /\ SaveParked /\ ProviderParked /\ ScrapeParked /\ SizeParked /\ RunParked /\ TrayParked

SpecAnalyzer == InitAnalyzer /\ [][AnalyzerNext]_vars

\* The cookie store under any sequence of its calls, as time passes.
InitCookies ==
    /\ CookiesInit /\ ScrollParked /\ AnalyzerParked /\ LoginParked /\ LogoutParked /\ DigestParked
    /\ FilterParked /\ MetricParked /\ SnapshotParked /\ SaveParked /\ ProviderParked /\ ScrapeParked /\ SizeParked /\ RunParked /\ TrayParked

SpecCookies == InitCookies /\ [][CookiesNext]_vars

\* One Login attempt, over any file found at the start.
InitLogin ==
    /\ LoginInit /\ CookiesFound /\ ScrollParked /\ AnalyzerParked /\ LogoutParked /\ DigestParked
    /\ FilterParked /\ MetricParked /\ SnapshotParked /\ SaveParked /\ ProviderParked /\ ScrapeParked /\ SizeParked /\ RunParked /\ TrayParked

SpecLogin == InitLogin /\ [][LoginNext]_vars

\* The tray's auth menu item and the logout command, side by side, as time
\* passes.
InitLogout ==
    /\ LogoutInit /\ CookiesFound /\ ScrollParked /\ AnalyzerParked /\ LoginParked /\ DigestParked
    /\ FilterParked /\ MetricParked /\ SnapshotParked /\ SaveParked /\ ProviderParked /\ ScrapeParked /\ SizeParked /\ RunParked /\ TrayParked

SpecLogout == InitLogout /\ [][LogoutNext]_vars

\* One run of the pipeline, while time passes and the file may be cleared.
InitDigest ==
    /\ DigestInit /\ CookiesFound /\ ScrollParked /\ AnalyzerParked /\ LoginParked /\ LogoutParked
    /\ FilterParked /\ MetricParked /\ SnapshotParked /\ SaveParked /\ ProviderParked /\ ScrapeParked /\ SizeParked /\ RunParked /\ TrayParked

SpecDigest == InitDigest /\ [][DigestNext]_vars

\* One call of the relevance filter, on any posts and analyses.
InitFilter ==
    /\ FilterInit /\ ScrollParked /\ AnalyzerParked /\ CookiesParked /\ LoginParked
    /\ LogoutParked /\ DigestParked /\ MetricParked /\ SnapshotParked /\ SaveParked /\ ProviderParked /\ ScrapeParked /\ SizeParked /\ RunParked /\ TrayParked

SpecFilter == InitFilter /\ [][FilterNext]_vars

\* One call of parseMetric, on any metric text.
InitMetric ==
    /\ MetricInit /\ ScrollParked /\ AnalyzerParked /\ CookiesParked /\ LoginParked
    /\ LogoutParked /\ DigestParked /\ FilterParked /\ SnapshotParked /\ SaveParked /\ ProviderParked /\ ScrapeParked /\ SizeParked /\ RunParked /\ TrayParked

SpecMetric == InitMetric /\ [][MetricNext]_vars

\* Two callers of ReloadConfig and two callers of getSnapshot, side by side.
InitSnapshot ==
    /\ SnapshotInit /\ ScrollParked /\ AnalyzerParked /\ CookiesParked /\ LoginParked
    /\ LogoutParked /\ DigestParked /\ FilterParked /\ MetricParked /\ SaveParked /\ ProviderParked /\ ScrapeParked /\ SizeParked /\ RunParked /\ TrayParked

SpecSnapshot == InitSnapshot /\ [][SnapshotNext]_vars

InitSaveRace ==
    /\ SaveRaceInit /\ ScrollParked /\ AnalyzerParked /\ LoginParked /\ LogoutParked
    /\ DigestParked /\ FilterParked /\ MetricParked /\ SnapshotParked /\ ProviderParked /\ ScrapeParked /\ SizeParked /\ RunParked /\ TrayParked

SpecSaveRace == InitSaveRace /\ [][SaveRaceNext]_vars

\* One call of AnthropicProvider.Analyze, on any batch and any response.
InitProvider ==
    /\ ProviderInit /\ ScrollParked /\ AnalyzerParked /\ CookiesParked /\ LoginParked
    /\ LogoutParked /\ DigestParked /\ FilterParked /\ MetricParked /\ SnapshotParked
    /\ SaveParked /\ ScrapeParked /\ SizeParked /\ RunParked /\ TrayParked

SpecProvider == InitProvider /\ [][ProviderNext]_vars

\* One scrape call, whose context may be cancelled or run out at any point.
\* The steps of the call are sequential code, and every browser call and
\* sleep in it returns; nothing makes the user press Enter at the debug
\* pause.
InitScrape ==
    /\ ScrapeInit /\ ScrollParked /\ AnalyzerParked /\ CookiesParked /\ LoginParked
    /\ LogoutParked /\ DigestParked /\ FilterParked /\ MetricParked /\ SnapshotParked
    /\ SaveParked /\ ProviderParked /\ SizeParked /\ RunParked /\ TrayParked

SpecScrape == InitScrape /\ [][ScrapeNext]_vars /\ WF_vars(ScrapeSteps)

\* One call of AnalyzePosts on a non-empty list with any batch size. The
\* code is sequential, the closures run, and the Provider answers every
\* call.
InitSize ==
    /\ SizeInit /\ ScrollParked /\ AnalyzerParked /\ CookiesParked /\ LoginParked
    /\ LogoutParked /\ DigestParked /\ FilterParked /\ MetricParked /\ SnapshotParked
    /\ SaveParked /\ ProviderParked /\ ScrapeParked /\ RunParked /\ TrayParked

SpecSize == InitSize /\ [][SizeNext]_vars /\ WF_vars(SizeNext)

\* One GenerateDigest run, of either kind, beside two callers of
\* ReloadConfig.
InitRun ==
    /\ RunInit /\ SnapshotInit /\ ScrollParked /\ AnalyzerParked /\ CookiesParked
    /\ LoginParked /\ LogoutParked /\ DigestParked /\ FilterParked /\ MetricParked
    /\ SaveParked /\ ProviderParked /\ ScrapeParked /\ SizeParked /\ TrayParked

SpecRun == InitRun /\ [][RunNext]_vars

\* The dispatch loop of the tray and the actions its menu starts.
InitTray ==
    /\ TrayInit /\ ScrollParked /\ AnalyzerParked /\ CookiesParked /\ LoginParked
    /\ LogoutParked /\ DigestParked /\ FilterParked /\ MetricParked /\ SnapshotParked
    /\ SaveParked /\ ProviderParked /\ ScrapeParked /\ SizeParked /\ RunParked

SpecTray == InitTray /\ [][TrayNext]_vars

\* --------------------------------------------------------------- properties

NoDup(s) == \A i, j \in 1..Len(s) : s[i] = s[j] => i = j

\* C1: the accumulator of the scroll-collect loop, and the sequence the loop
\* returns, never hold two items with the same ID, however often an ID is
\* rendered again within a pass or across passes.
C1_DedupInvariant == NoDup(posts) /\ NoDup(retPosts)

\* A run that returned two or more posts after some ID was rendered again.
C1_Witness ==
    /\ scPc = "done"
    /\ ~retErr
    /\ reappeared
    /\ passes >= 2
    /\ Len(retPosts) >= 2

\* C2: for every target count N >= 0 the scroll-collect loop returns at
\* most N items, for the feed and for a thread.
C2_BoundedResultSize == scPc = "done" => Len(retPosts) <= maxCount

\* C3: a run that returns without error and with fewer than N items has made
\* exactly maxScrollAttempts extraction passes: no other reason, such as a
\* pass that appended nothing, ends the loop early.
C3_ShortOnlyAtCeiling ==
    (scPc = "done" /\ ~retErr /\ Len(retPosts) < maxCount)
        => passes = maxScrollAttempts

\* A feed run that returned short after two passes, one of which appended
\* nothing.
C3_Witness ==
    /\ scPc = "done"
    /\ scKind = "feed"
    /\ ~retErr
    /\ Len(retPosts) < maxCount
    /\ barrenPass
    /\ passes = 2

CeilDiv(n, b) == IF n % b = 0 THEN n \div b ELSE n \div b + 1

\* The sequences f[from], f[from+1], ..., f[to - 1] joined in ascending index.
RECURSIVE ConcatAscending(_, _, _)
ConcatAscending(f, from, to) ==
    IF from >= to THEN <<>> ELSE f[from] \o ConcatAscending(f, from + 1, to)

AllFaithful == \A k \in DOMAIN provided : provided[k] = Faithful(captured[k].batch)

\* C4: when every batch call succeeds, AnalyzePosts returns the per-batch
\* results joined in ascending batch index, whatever the order in which the
\* calls completed; if the Provider answered every batch with one result per
\* post in input order, the k-th result is that of the k-th post and there
\* are as many results as posts.
C4_OrderPreservation ==
    (anPc = "done" /\ anRetErr = NoErr /\ Len(anPosts) >= 1)
        => /\ DOMAIN provided = 0..(CeilDiv(Len(anPosts), batchSize) - 1)
           /\ anRetResults =
                  ConcatAscending(provided, 0, CeilDiv(Len(anPosts), batchSize))
           /\ AllFaithful => anRetResults = anPosts

\* A successful call of three or more batches whose calls completed out of
\* batch order, answered faithfully.
C4_Witness ==
    /\ anPc = "done"
    /\ anRetErr = NoErr
    /\ numBatches >= 3
    /\ outOfOrder
    /\ AllFaithful

\* C5: if any batch call failed, AnalyzePosts returns an error and no
\* results, however many batches succeeded and in whatever order the calls
\* completed.
C5_AllOrNothing ==
    (anPc = "done" /\ failed # {}) => (anRetErr # NoErr /\ anRetResults = <<>>)

\* A call in which one batch failed and two others succeeded with results.
C5_Witness ==
    /\ anPc = "done"
    /\ Cardinality(failed) = 1
    /\ Cardinality({k \in DOMAIN provided : provided[k] # <<>>}) >= 2
    /\ outOfOrder

\* C6: AnalyzePosts on an empty post list returns no results and no error
\* and makes no Provider call.
C6_EmptyShortCircuit ==
    (anPc = "done" /\ anPosts = <<>>)
        => (anRetResults = <<>> /\ anRetErr = NoErr /\ numCalls = 0 /\ calls = {})

\* AnalyzePosts has returned for an empty post list.
C6_Witness == anPc = "done" /\ anPosts = <<>>

\* The call the batching must make for batch k of the posts.
ExpectedCall(k) ==
    [closure |-> k,
     batch |-> SubSeq(anPosts, k * batchSize + 1,
                      Min((k + 1) * batchSize, Len(anPosts))),
     interests |-> interests]

\* C7: for n >= 1 posts and batch size b >= 1 AnalyzePosts makes exactly
\* ceil(n/b) Provider calls, call k with posts[k*b .. min((k+1)*b, n)) and
\* the Analyzer's interests; no other call is ever made.
C7_BatchPartition ==
    /\ calls \subseteq {ExpectedCall(k) : k \in 0..(CeilDiv(Len(anPosts), batchSize) - 1)}
    /\ numCalls = Cardinality(calls)
    /\ (anPc = "done" /\ Len(anPosts) >= 1)
          => /\ numCalls = CeilDiv(Len(anPosts), batchSize)
             /\ \A c \in calls : Len(c.batch) \in 1..batchSize
             /\ \A i \in 1..Len(anPosts) :
                   Cardinality({c \in calls : \E j \in 1..Len(c.batch) : c.batch[j] = anPosts[i]}) = 1

\* A finished call whose last batch is smaller than the batch size.
C7_Witness ==
    /\ anPc = "done"
    /\ numBatches >= 2
    /\ Len(anPosts) % batchSize # 0
    /\ numCalls = numBatches

\* C8: when batch calls failed, the error AnalyzePosts returns names the
\* batch whose call failed first, and that batch's call did fail.
C8_FirstErrorWins ==
    (anPc = "done" /\ failed # {}) => (anRetErr = firstFailed /\ anRetErr \in failed)

\* Two batch calls failed, and the one that failed first is not the one of
\* lowest index.
C8_Witness ==
    /\ anPc = "done"
    /\ Cardinality(failed) >= 2
    /\ \E k \in failed : k < firstFailed

\* A cookie of that name with a non-empty value is stored.
HasNonEmpty(f, name) ==
    \E i \in 1..Len(f.Cookies) : f.Cookies[i].Name = name /\ f.Cookies[i].Value # ""

\* C9: IsValid returns true if and only if Load succeeds, the stored bundle
\* holds an auth_token and a ct0 cookie, both with a non-empty value, and the
\* stored expiration is in the future.
C9_CredentialValidity ==
    lastOp.op = "IsValid"
        => (lastOp.val <=> /\ LoadOK(file)
                           /\ HasNonEmpty(file, "auth_token")
                           /\ HasNonEmpty(file, "ct0")
                           /\ file.ExpiresAt > now)

\* The expiry values of the auth cookies of a stored file.
AuthExpiries(f) ==
    {f.Cookies[i].Expires : i \in {j \in 1..Len(f.Cookies) : f.Cookies[j].Name \in AuthNames}}

Earlier(a, b) == a.sec < b.sec \/ (a.sec = b.sec /\ ~a.half /\ b.half)

\* The earliest of a non-empty set of expiry values.
EarliestOf(E) == CHOOSE e \in E : \A d \in E : ~Earlier(d, e)

BothPresent(f) == LoadOK(f) /\ HasCookie(f, "auth_token") /\ HasCookie(f, "ct0")

\* For a bundle holding both auth cookies, IsValid is false one second after
\* the stored expiration and true one second before it.
OneSecondBoundary ==
    (lastOp.op = "IsValid" /\ BothPresent(file))
        => /\ file.ExpiresAt = now - 1 => lastOp.val = FALSE
           /\ file.ExpiresAt = now + 1 => lastOp.val = TRUE

C11_SaveOverwrites ==
    /\ [](/\ lastOp.op = "Save"
              => (LoadOK(file) /\ file.Cookies = lastSaved.cookies)
          /\ (lastOp.op = "Load" /\ lastSaved.set)
              => /\ lastOp.ok
                 /\ lastOp.val.Cookies = lastSaved.cookies
                 /\ lastOp.val.ExpiresAt =
                        IF AuthExpiries(lastOp.val) = {} THEN ZeroTime
                        ELSE EarliestOf(AuthExpiries(lastOp.val)).sec)
    /\ [][(lastOp'.op = "Save" /\ lastOp'.again) => file' = file]_vars

\* Save has just replaced a file that held other cookies, with two or more
\* cookies.
C11_Witness ==
    /\ lastOp.op = "Save"
    /\ lastOp.over
    /\ Len(file.Cookies) >= 2

\* C12: a successful Logout removes the file as Clear does, and from then
\* until the next Save nothing is persisted: every Load fails and every
\* IsValid returns false.
C12_SessionLifecycle ==
    /\ (lastOp.op = "Logout" /\ lastOp.ok) => loggedOut
    /\ loggedOut
          => /\ file = NoFile
             /\ lastOp.op = "Load" => ~lastOp.ok
             /\ lastOp.op = "GetXCookies" => ~lastOp.ok
             /\ lastOp.op = "IsValid" => ~lastOp.val

\* IsValid has returned false some seconds after a successful Logout.
C12_Witness ==
    /\ loggedOut
    /\ now >= 2
    /\ lastOp.op = "IsValid"
    /\ lastOp.val = FALSE

\* C13 as stated: once IsValid has returned false for a persisted bundle,
\* that bundle is no longer persisted.
C13_InvalidatedByDeletion ==
    (lastOp.op = "IsValid" /\ lastOp.loaded /\ ~lastOp.val) => ~LoadOK(file)

\* C13 amended: IsValid only reads. A bundle for which IsValid has returned
\* false is still persisted, unchanged, when IsValid returns.
C13_InvalidBundleStays ==
    /\ []((lastOp.op = "IsValid" /\ lastOp.loaded) => LoadOK(file))
    /\ [][lastOp'.op = "IsValid" => file' = file]_vars

\* IsValid has returned false for a persisted bundle that holds both auth
\* cookies and has expired.
C13_Witness ==
    /\ lastOp.op = "IsValid"
    /\ lastOp.loaded
    /\ lastOp.val = FALSE
    /\ BothPresent(file)
    /\ now > file.ExpiresAt

\* C14: when nothing is persisted, the callers of Clear end as after a
\* successful logout: TriggerLogout returns no error and the logout command
\* exits with status 0.
C14_ClearNotFoundIsSuccess ==
    /\ (trayResult.op = "TriggerLogout" /\ ~trayResult.found) => trayResult.ok
    /\ (cliResult.op = "logout" /\ ~cliResult.found) => cliResult.exit = 0

\* The domain is x.com or lies under it.
EndsWithXCom(d) ==
    \E k \in 0..Len(d.labels) : SubSeq(d.labels, k + 1, Len(d.labels)) = XLabels

\* The position of a cookie in a list of cookies with distinct names.
Pos(cookies, c) == CHOOSE i \in 1..Len(cookies) : cookies[i] = c

\* The list xs holds exactly the cookies of the list cookies that satisfy
\* Keep, in the order of cookies.
IsFiltered(xs, cookies, Keep(_)) ==
    /\ \A i \in 1..Len(xs) :
          \E j \in 1..Len(cookies) : cookies[j] = xs[i] /\ Keep(xs[i])
    /\ \A j \in 1..Len(cookies) :
          Keep(cookies[j]) => \E i \in 1..Len(xs) : xs[i] = cookies[j]
    /\ \A i, k \in 1..Len(xs) : i < k => Pos(cookies, xs[i]) < Pos(cookies, xs[k])

\* C15 as stated: GetXCookies returns exactly the persisted cookies whose
\* domain ends with x.com, in stored order.
C15_ScopedCredentials ==
    (lastOp.op = "GetXCookies" /\ lastOp.ok)
        => IsFiltered(lastOp.val, file.Cookies, LAMBDA c : EndsWithXCom(c.Domain))

\* C15 amended: GetXCookies returns exactly the persisted cookies whose
\* domain is ".x.com" or "x.com", in stored order; a cookie of another
\* domain, be it unrelated or a host under x.com, is not returned; without
\* a readable file the call fails.
C15_ScopedCredentialsExactDomain ==
    /\ (lastOp.op = "GetXCookies" /\ lastOp.ok)
          => /\ LoadOK(file)
             /\ IsFiltered(lastOp.val, file.Cookies,
                           LAMBDA c : c.Domain \in {DotXCom, XCom})
             /\ \A i \in 1..Len(lastOp.val) :
                   lastOp.val[i].Domain \notin {DotDoubleclickNet, ApiXCom}
    /\ (lastOp.op = "GetXCookies" /\ ~lastOp.ok) => ~LoadOK(file)

\* GetXCookies has returned two of three persisted cookies, leaving out the
\* second, which is not of x.com.
C15_Witness ==
    /\ lastOp.op = "GetXCookies"
    /\ lastOp.ok
    /\ Len(file.Cookies) = 3
    /\ Len(lastOp.val) = 2
    /\ file.Cookies[2].Domain \in {DotDoubleclickNet, ApiXCom}
    /\ lastOp.val = <<file.Cookies[1], file.Cookies[3]>>

\* The tick saw a post-login URL and an auth_token cookie with a value, and
\* no browser call failed.
BothSignals(tick) ==
    /\ tick.kind = "tick"
    /\ ~tick.locErr
    /\ ~tick.cookiesErr
    /\ tick.home
    /\ tick.auth

\* waitForLogin has returned nil.
WaitSucceeded ==
    lgPc \in {"extract", "save"} \/ lgResult \in {"ok", "extract", "save"}

C17_LoginProtocolOrder ==
    /\ lgSaves <= 1
    /\ lgSaves = 1 => (lgDetected.set /\ lgExtracted.set /\ lgPc = "done")
    /\ lgResult # "none" <=> lgPc = "done"
    /\ lgResult = "ok"
          => /\ lgSaves = 1
             /\ LoadOK(file)
             /\ file.Cookies = lgExtracted.cookies
    /\ lgResult \in {"navigate", "timeout", "cancelled", "extract"}
          => /\ lgSaves = 0
             /\ file = lgFileAtStart
    /\ lgResult \in {"none", "ok", "navigate", "timeout", "cancelled", "extract", "save"}

\* A Login that found a persisted bundle has ended by the timeout after
\* two or more ticks, one of which saw the URL alone.
C17_Witness ==
    /\ lgResult = "timeout"
    /\ lgPolls >= 2
    /\ lgUrlAlone
    /\ LoadOK(lgFileAtStart)

\* C18 as stated: any browser-control error during a Login attempt ends the
\* attempt with an error; polling does not continue after it.
C18_BrowserErrorTerminal ==
    /\ lgResult \in {"navigate", "extract"} => lgPc = "done"
    /\ lgPollErrs # {} => (lgPc = "done" /\ lgResult \notin {"none", "ok"})

\* C18 amended: an error of the navigation or of the extraction after the
\* wait ends the attempt with an error and no Save; an error of reading the
\* location or the cookies at a tick is skipped, and the wait goes on to the
\* next tick, the timeout or the cancellation.
C18_BrowserErrorTerminalOutsidePolling ==
    /\ lgResult \in {"navigate", "extract"} => (lgPc = "done" /\ lgSaves = 0)
    /\ lgResult # "poll"
    /\ (/\ lgPc \notin {"done"}
        /\ lgLastPoll.kind = "tick"
        /\ lgLastPoll.locErr \/ (lgLastPoll.home /\ lgLastPoll.cookiesErr))
          => (lgPc = "wait" /\ lgResult = "none")

\* A Login has succeeded although reading the location failed at one tick
\* and reading the cookies at another.
C18_Witness ==
    /\ lgResult = "ok"
    /\ lgPollErrs = {"location", "cookies"}

\* C19: a run that found IsAuthenticated false at its start makes no scrape,
\* no Provider call, no filter and no digest build, and is over: GenerateDigest
\* has returned nil, the scrape step its "not authenticated" error.
C19_AuthenticationGuard ==
    (gdPc # "idle" /\ ~gdAuth)
        => /\ gdPc = "done"
           /\ gdScrapes = 0
           /\ gdProviderCalls = 0
           /\ gdFilters = 0
           /\ gdBuilds = 0
           /\ gdResult = IF gdKind = "generate" THEN "nil" ELSE "notAuthenticated"

\* GenerateDigest has returned at the guard with a bundle persisted, but
\* expired.
C19_Witness ==
    /\ gdPc = "done"
    /\ gdKind = "generate"
    /\ ~gdAuth
    /\ BothPresent(file)
    /\ now > file.ExpiresAt

\* C20: when the scrape returned no posts GenerateDigest has made no Provider
\* call, run no filter and built no digest, and has returned nil; when the
\* filter kept no post it has built no digest and has returned nil.
C20_OrchestratorShortCircuit ==
    /\ (gdKind = "generate" /\ gdScrapes >= 1 /\ gdResult # "scrape" /\ gdPosts = <<>>)
          => /\ gdPc = "done"
             /\ gdResult = "nil"
             /\ gdProviderCalls = 0
             /\ gdFilters = 0
             /\ gdBuilds = 0
    /\ (gdKind = "generate" /\ gdFilters >= 1 /\ gdRelevant = <<>>)
          => /\ gdPc = "done"
             /\ gdResult = "nil"
             /\ gdBuilds = 0

\* GenerateDigest has returned nil after the filter kept none of two posts,
\* both analysed.
C20_Witness ==
    /\ gdResult = "nil"
    /\ gdFilters = 1
    /\ gdRelevant = <<>>
    /\ Len(gdPosts) = 2
    /\ Len(gdAnalyses) = 2
    /\ gdProviderCalls >= 1

\* The analysis the filter joins to a post: the one with the post's ID (the
\* last one, when the Provider answered for an ID more than once).
JoinedTo(analyses, id, i) ==
    /\ i \in 1..Len(analyses)
    /\ analyses[i].PostID = id
    /\ \A j \in (i + 1)..Len(analyses) : analyses[j].PostID # id

\* The post has a joined analysis whose score is at or above the threshold.
Relevant(analyses, threshold, id) ==
    \E i \in 1..Len(analyses) :
        JoinedTo(analyses, id, i) /\ analyses[i].RelevanceScore >= threshold

KeptPosts(relevant) == [i \in 1..Len(relevant) |-> relevant[i].Post]

C22_StageOrder ==
    /\ [](/\ gdScrapes <= 1 /\ gdAnalyzes <= 1 /\ gdFilters <= 1 /\ gdBuilds <= 1
          /\ "scrape" \in gdFailed =>
                /\ gdPc = "done" /\ gdResult = "scrape"
                /\ gdAnalyzes = 0 /\ gdFilters = 0 /\ gdBuilds = 0
          /\ "analyze" \in gdFailed =>
                /\ gdPc = "done" /\ gdResult = "analyze"
                /\ gdFilters = 0 /\ gdBuilds = 0
          /\ gdResult = "nil" => gdFailed = {})
    /\ [][/\ gdScrapes' # gdScrapes =>
                gdAnalyzes = 0 /\ gdFilters = 0 /\ gdBuilds = 0
          /\ gdAnalyzes' # gdAnalyzes =>
                gdScrapes = 1 /\ gdFilters = 0 /\ gdBuilds = 0
          /\ gdFilters' # gdFilters =>
                gdScrapes = 1 /\ gdAnalyzes = 1 /\ gdBuilds = 0
          /\ gdBuilds' # gdBuilds =>
                gdScrapes = 1 /\ gdAnalyzes = 1 /\ gdFilters = 1]_vars

\* A run whose analysis failed after a scrape that returned posts.
C22_Witness ==
    /\ gdPc = "done"
    /\ gdKind = "generate"
    /\ gdFailed = {"analyze"}
    /\ gdResult = "analyze"
    /\ gdScrapes = 1
    /\ Len(gdPosts) > 0

\* C23: a cache write that fails is not fatal: ScrapeForYou, AnalyzePosts and
\* FilterByRelevance still return their value and the run goes on to the next
\* stage, and BuildDigest goes on to save the digest and returns no error
\* when the save succeeds.
C23_CheckpointFailuresNonFatal ==
    /\ gdResult # "cache"
    /\ "scrape" \in gdCacheFailed =>
          /\ gdScrapes = 1 /\ "scrape" \notin gdFailed
          /\ (gdKind = "generate" /\ Len(gdPosts) > 0) => gdPc # "scrape"
          /\ (gdKind = "generate" /\ Len(gdPosts) > 0 /\ gdPc = "done") => gdAnalyzes = 1
    /\ "analyze" \in gdCacheFailed =>
          /\ gdAnalyzes = 1 /\ "analyze" \notin gdFailed
          /\ gdPc # "analyze"
          /\ gdPc = "done" => gdFilters = 1
    /\ "filter" \in gdCacheFailed =>
          /\ gdFilters = 1
          /\ gdRelevant = FilterByRelevance(gdPosts, gdAnalyses, gdThreshold)
          /\ (Len(gdRelevant) > 0 /\ gdPc = "done") => gdBuilds = 1
    /\ "digest" \in gdCacheFailed =>
          /\ gdBuilds = 1 /\ gdPc = "done"
          /\ gdResult = (IF gdDigestSaved THEN "nil" ELSE "build")

\* A run in which every cache write failed and the digest was saved.
C23_Witness ==
    /\ gdPc = "done"
    /\ gdCacheFailed = {"scrape", "analyze", "filter", "digest"}
    /\ gdDigestSaved
    /\ gdResult = "nil"

C25_FailureDiscardsPartialWork ==
    /\ browserFailed =>
          /\ scPc = "done"
          /\ retErr /\ retPosts = <<>>
          /\ scrapeErr /\ scrapePosts = <<>>
    /\ retErr => browserFailed
    /\ scrapeErr = retErr

\* A run that failed after it had accumulated posts.
C25_Witness ==
    /\ scPc = "done"
    /\ browserFailed
    /\ retErr
    /\ Len(posts) > 0
    /\ passes >= 2

\* The scroll-attempt ceiling for N posts: N/5 for the feed, N/3 + 5 for a
\* thread.
Ceiling(kind, n) == IF kind = "thread" THEN n \div 3 + 5 ELSE n \div 5

\* C26: a run makes at most ceiling extraction passes (ceiling = N/5 for the
\* feed, N/3 + 5 for a thread) and then terminates; a run that ends with
\* fewer than N posts and no failed browser operation has made ceiling
\* passes and returns the posts it has with a nil error.
C26_CeilingAndTermination ==
    /\ [](/\ scPc # "idle" => maxScrollAttempts = Ceiling(scKind, maxCount)
          /\ passes <= Ceiling(scKind, maxCount)
          /\ (scPc = "done" /\ ~browserFailed /\ Len(retPosts) < maxCount) =>
                /\ ~retErr
                /\ retPosts = posts
                /\ passes = Ceiling(scKind, maxCount))
    /\ (scPc = "loop") ~> (scPc = "done")

\* A thread run that returned short, without error, after all its passes.
C26_Witness ==
    /\ scPc = "done"
    /\ scKind = "thread"
    /\ maxCount = 3
    /\ passes = 6
    /\ ~retErr
    /\ Len(retPosts) = 2

HasEmptyID(ps) == \E i \in 1..Len(ps) : ps[i] = EmptyID

FirstSeenAt(id) == CHOOSE i \in 1..Len(encountered) : encountered[i] = id

\* The posts are in the order in which their IDs were first encountered.
InFirstSeenOrder(ps) ==
    /\ \A i \in 1..Len(ps) : \E k \in 1..Len(encountered) : encountered[k] = ps[i]
    /\ \A i, j \in 1..Len(ps) :
          i < j <=> FirstSeenAt(ps[i]) < FirstSeenAt(ps[j])

\* C28: in the accumulator and in the returned sequence, a precedes b if and
\* only if a was first encountered before b (in an earlier pass, or earlier
\* in the same pass); a step of a run never moves or replaces a post it has
\* kept.
C28_FirstSeenOrder ==
    /\ [](InFirstSeenOrder(posts) /\ InFirstSeenOrder(retPosts))
    /\ [][scPc # "idle" =>
             /\ Len(posts') >= Len(posts)
             /\ SubSeq(posts', 1, Len(posts)) = posts]_vars

\* A run that returned two posts, not in the order of their IDs, after an ID
\* had come again.
C28_Witness ==
    /\ scPc = "done"
    /\ ~retErr
    /\ reappeared
    /\ passes >= 2
    /\ Len(retPosts) >= 2
    /\ retPosts[1] > retPosts[2]

\* The count a metric text stands for: the decimal number left when the
\* padding, the commas and a suffix K or M are taken away, times 1000 for K
\* and 1000000 for M, without its fraction; 0 for a text that is no such
\* number.
CountOf(text) ==
    LET s == RemoveCommas(TrimSpace(text))
        isK == HasSuffixUpper(s, "k", "K")
        isM == ~isK /\ HasSuffixUpper(s, "m", "M")
        factor == IF isK THEN 1000 ELSE IF isM THEN 1000000 ELSE 1
        number == IF isK \/ isM THEN SubSeq(s, 1, Len(s) - 1) ELSE s
        points == {i \in 1..Len(number) : number[i] = "."}
        digits == SelectSeq(number, IsDigit)
        isNumber ==
            /\ \A i \in 1..Len(number) : IsDigit(number[i]) \/ number[i] = "."
            /\ Cardinality(points) <= 1
            /\ Len(digits) >= 1
        decimals == IF points = {} THEN 0 ELSE Len(number) - (CHOOSE i \in points : TRUE)
    IN IF isNumber THEN (DigitsValue(digits) * factor) \div Pow10(decimals) ELSE 0

\* C29: parseMetric removes the thousands separators and applies the
\* multipliers K = 1000 and M = 1000000 (either letter case) to the decimal
\* number before the suffix, dropping the fraction of the product: "1,234"
\* gives 1234, "1.2K" gives 1200, "5.7M" gives 5700000; the empty text and
\* every text that is no number give 0.
C29_MetricParsing == pmPc = "done" => pmResult = CountOf(pmText)

\* The three references of a snapshot come from one installation.
InstalledTogether(s) == s.config = s.scraper /\ s.scraper = s.analyzer

\* A step that changes one of the three fields of the App.
Swaps ==
    \/ appConfig' # appConfig
    \/ appScraper' # appScraper
    \/ appAnalyzer' # appAnalyzer

\* C30: every snapshot getSnapshot returns holds a config, a scraper and an
\* analyzer of one installation (New, or one ReloadConfig), whatever
\* ReloadConfig calls run beside it; the three fields change only in steps
\* of the holder of the exclusive lock, while nobody holds the read lock; and
\* no step changes what a loaded config holds.
C30_SnapshotConsistency ==
    /\ [](\A d \in Readers :
            gsSnapshot[d] # NoSnapshot => InstalledTogether(gsSnapshot[d]))
    /\ [][/\ Swaps => muWriter # 0 /\ muReaders = {} /\ rcPc[muWriter] # "idle"
          /\ \A g \in 1..Len(cfgContent) : cfgContent'[g] = cfgContent[g]]_vars

\* Reached: a reader holds the snapshot of the first reload while the second
\* reload is in the middle of its swap, and the other reader waits with the
\* snapshot of New.
C30_Witness ==
    /\ \E d \in Readers : gsSnapshot[d] = [config |-> 1, scraper |-> 1, analyzer |-> 1]
    /\ \E d \in Readers : gsSnapshot[d] = [config |-> 0, scraper |-> 0, analyzer |-> 0]
    /\ muWriter # 0
    /\ appConfig = 2
    /\ appScraper = 1

\* C31: a Load, IsValid or GetXCookies that runs beside a Save finds the
\* complete bundle of the Save before or the complete bundle of this Save:
\* its Load succeeds and returns a bundle that some Save has written.
C31_ReadsSeeWholeBundle ==
    /\ lastOp.op \in {"Load", "GetXCookies"} => lastOp.ok
    /\ lastOp.op = "Load" => \E cookies \in SavedBundles : lastOp.val = Stored(cookies)
    /\ lastOp.op = "IsValid" => lastOp.loaded

\* The analyses are one per post of the batch, each for a post of the batch.
OnePerPost(analyses, batch) ==
    /\ Len(analyses) = Len(batch)
    /\ \A i \in 1..Len(analyses) : \E j \in 1..Len(batch) : analyses[i].PostID = batch[j]
    /\ \A j \in 1..Len(batch) :
          Cardinality({i \in 1..Len(analyses) : analyses[i].PostID = batch[j]}) = 1

\* C32: a call of Provider.Analyze that returns no error returns exactly one
\* result per post of its batch, each with the ID of a post of the batch.
C32_ProviderContract ==
    (pvPc = "done" /\ pvErr = "none") => OnePerPost(pvAnalyses, pvBatch)

C34_LoopStepOrder ==
    [][/\ scrolls' # scrolls => Len(posts) < maxCount
       /\ (scPc = "sleep" /\ scPc' # scPc) => Len(posts) < maxCount
       /\ (scPc = "check" /\ scPc' # scPc) => passes > 0]_vars

\* C36: AnalyzePosts on a non-empty list ends, with results or with an
\* error, whatever integer the batch size is.
C36_TerminatesForEveryBatchSize ==
    /\ [](bsOutcome # "panic")
    /\ <>(bsPc = "done" /\ bsOutcome \in {"results", "error"})

\* A step in which closure k, and no other, returns.
ClosureFinishes(k) ==
    /\ task[k] = "calling"
    /\ task' = [task EXCEPT ![k] = "finished"]

\* C35: a result slot changes only in the step in which the closure of that
\* batch index returns, a closure that has returned stays so (each slot is
\* written by one closure, once), AnalyzePosts on a non-empty list returns
\* only when a closure was started for every batch and all of them have
\* returned, and after the return no closure runs and no slot changes.
C35_BatchIsolationAndFanIn ==
    [][/\ \A s \in DOMAIN results :
             (s \in DOMAIN results' /\ results'[s] # results[s]) =>
                 \E k \in DOMAIN task : captured[k].batchIdx = s /\ ClosureFinishes(k)
       /\ \A k \in DOMAIN task : task[k] = "finished" => task'[k] = "finished"
       /\ (anPc # "done" /\ anPc' = "done" /\ anPosts' # <<>>) =>
             /\ DOMAIN task = 0..(numBatches - 1)
             /\ \A k \in DOMAIN task : task[k] = "finished"
       /\ anPc = "done" => UNCHANGED <<task, results>>]_vars

\* AnalyzePosts has returned an error after three batches whose closures
\* returned out of index order, one of them with results in its slot.
C35_Witness ==
    /\ anPc = "done"
    /\ numBatches = 3
    /\ outOfOrder
    /\ Cardinality(failed) = 1
    /\ \E s \in DOMAIN results : results[s] # <<>>

\* The ReloadConfig call r is between its Lock and its Unlock.
Swapping(r) == rcPc[r] \in {"setConfig", "setAnalyzer", "setScraper", "unlock"}

\* C37: a step in which ReloadConfig returns the error of config.Load or of
\* analyzer.New leaves config, scraper and analyzer unchanged, and that call
\* has not been past its Lock; the three fields change only between the Lock
\* and the Unlock of a call, which holds the exclusive lock alone; and when
\* that call returns nil the three fields are the config it loaded, and the
\* analyzer and the scraper built from it.
C37_ReloadAllOrNothing ==
    /\ [][\A r \in Reloaders :
            /\ (rcResult'[r] # rcResult[r] /\ rcResult'[r] \in {"loadErr", "analyzerErr"}) =>
                  /\ ~Swaps
                  /\ ~Swapping(r) /\ rcPc[r] # "built"
            /\ (rcResult'[r] # rcResult[r] /\ rcResult'[r] = "ok") =>
                  /\ appConfig' = rcCfg[r]
                  /\ appAnalyzer' = rcNewAnalyzer[r]
                  /\ appScraper' = rcCfg[r]
                  /\ rcNewAnalyzer[r] = rcCfg[r]
            /\ Swaps => muWriter # 0 /\ Swapping(muWriter)]_vars
    /\ [](\A r \in Reloaders : Swapping(r) => muWriter = r /\ muReaders = {})

\* One ReloadConfig has returned the error of analyzer.New for the first
\* loaded config, the other has returned nil, and the three fields are those
\* of the second.
C37_Witness ==
    /\ rcResult[1] = "analyzerErr"
    /\ rcResult[2] = "ok"
    /\ rcCfg[1] = 1
    /\ appConfig = 2 /\ appScraper = 2 /\ appAnalyzer = 2

\* C38: all the settings the stages of one GenerateDigest run use (the post
\* count and the scraper, the analyzer, the relevance threshold, the digest
\* settings) come from one installed configuration, whatever ReloadConfig
\* calls run between the stages.
C38_RunUsesOneSnapshot ==
    \A a \in grUsed : \A b \in grUsed : a[2] = b[2]

\* C39: while a Generate Digest run or an interactive login is in progress,
\* the dispatch loop is at its select (or has handled Quit), ready for the
\* next click.
C39_LoopStaysResponsive ==
    (trLoginActive \/ trDigests > 0) => trPc \in {"select", "quit"}

\* C40: a feed run with a target of at least one post that ends without a
\* browser failure has made at least one extraction pass.
C40_SmallTargetStillExtracts ==
    (/\ scPc = "done"
     /\ scKind \in {"feed", "legacyFeed"}
     /\ maxCount >= 1
     /\ ~browserFailed) => passes >= 1

====
